---------------------------- MODULE Spec2Model ----------------------------
(***************************************************************************)
(* Userspace chroot (crate unix-fd): the path-resolution engine of         *)
(* src/chroot.rs over the descriptor wrapper of src/fd.rs, on a static     *)
(* filesystem built from the test fixture of src/tests/chroot-data.inc.rs. *)
(*                                                                         *)
(* A path is a sequence of tokens: the separator "/" and the names between *)
(* separators ("." and ".." included), so "/tmp/d0" is                      *)
(* <<"/", "tmp", "/", "d0">>, "" is <<>> and "a//b" is <<"a","/","/","b">>. *)
(***************************************************************************)
EXTENDS Integers, Sequences, FiniteSets, TLC

VARIABLES
    scn,        \* which client drives the engine (fixes the paths it passes)
    pc,         \* position of the call in progress
    op,         \* the top-level call in progress
    base,       \* dir_fd argument of the call (the base handle B)
    arg,        \* path argument of the call
    path,       \* openat: the local `path` of the retry loop
    flags,      \* flags argument of open / openat
    fname,      \* fname argument of full_path
    stack,      \* chdir_internal activations: remaining components of each
    dir_fd,     \* the local dir_fd of the walk
    env,        \* ChdirLoopEnv: counter, root_stat
    num_loops,  \* openat: terminal retry counter
    comp,       \* openat: final component returned by opendir_internal
    res,        \* full_path: names accumulated leaf to root
    result,     \* what the call returns
    held,       \* the handle the client holds (returned by an earlier call)
    heldPath,   \* the last string the client got from full_path
    prev,       \* paired client: the previous call and its result
    expansions, \* number of symlink expansions of the call in progress
    maxdepth,   \* deepest nesting of chdir_internal in the call in progress
    acct,       \* the call's syscalls and the descriptors it has opened
    fdraws,     \* the FdRaw values a client of src/fd.rs has made
    rdir,       \* the ReadDir a client of src/dir.rs polls
    rc,         \* an Fd: the Rc of an FdRaw and the clones alive
    dirs,       \* the Dir streams a client of src/dir.rs has made
    rl          \* a call of FdRaw::readlinkat: its buffer

vars == <<scn, pc, op, base, arg, path, flags, fname, stack, dir_fd, env, num_loops,
          comp, res, result, held, heldPath, prev, expansions, maxdepth, acct,
          fdraws, rdir, rc, dirs, rl>>

-----------------------------------------------------------------------------
(* Program constants *)

MAX_LOOP_CNT == 256

(* Bounds of the model *)

\* the symlink chain c1 -> c0, c2 -> c1, ... has MAX_LOOP_CNT + ChainExtra links
ChainExtra == 1
\* e0 -> ".", e(i) -> "e(i-1)/e(i-1)" for i up to ExpDepth: 2^(i+1) - 1 expansions
ExpDepth == 8
\* the paired client prefixes up to MaxUp ".." components to a path
MaxUp == 2

-----------------------------------------------------------------------------
(* The filesystem: host tree (TEST_FS_OUTSIDE), and the chroot directory R  *)
(* = <host>/chroot holding TEST_FS_INSIDE plus three directories of links.  *)

Sep == "/"
Dot == "."
DotDot == ".."

\* <<parent, name, type, link target>>, node id = index; node 1 is the host
\* root (its own parent), node 9 is R.
TEST_FS ==
  << <<1, "",        "dir", <<>> >>,
     <<1, "etc",     "dir", <<>> >>,
     <<2, "passwd",  "reg", <<>> >>,
     <<2, "group",   "reg", <<>> >>,
     <<1, "tmp",     "dir", <<>> >>,
     <<5, "d0",      "dir", <<>> >>,
     <<6, "d1",      "dir", <<>> >>,
     <<7, "f0",      "reg", <<>> >>,
     <<1, "chroot",  "dir", <<>> >>,
     \* TEST_FS_INSIDE, below node 9
     <<9,  "chroot", "dir", <<>> >>,
     <<10, "f0",     "reg", <<>> >>,
     <<9,  "etc",    "dir", <<>> >>,
     <<12, "passwd", "reg", <<>> >>,
     <<12, "shadow", "reg", <<>> >>,
     <<12, "lf0",    "lnk", <<"..", "/", "..", "/", "etc", "/", "shadow">> >>,
     <<9,  "tmp",    "dir", <<>> >>,
     <<16, "d0",     "dir", <<>> >>,
     <<17, "d1",     "dir", <<>> >>,
     <<18, "f0",     "reg", <<>> >>,
     <<18, "lf0",    "lnk", <<"f0">> >>,
     <<18, "lf1",    "lnk", <<".", "/", "f0">> >>,
     <<18, "lf2",    "lnk", <<"/", "tmp", "/", "d0", "/", "d1", "/", "f0">> >>,
     <<18, "ld0",    "lnk", <<"/", "tmp", "/", "ld3", "/", "d1", "/">> >>,
     <<18, "lf3",    "lnk", <<"/", "tmp", "/", "ld3", "/", "d1", "/", "f0">> >>,
     <<18, "ld1",    "lnk", <<"/", "tmp", "/", "ld5", "/", "d1", "/">> >>,
     <<18, "lf4",    "lnk", <<"/", "tmp", "/", "ld5", "/", "d1", "/", "f0">> >>,
     <<17, "d2",     "dir", <<>> >>,
     <<16, "ld0",    "lnk", <<"d0">> >>,
     <<16, "ld1",    "lnk", <<".", "/", "d0">> >>,
     <<16, "ld2",    "lnk", <<"/", "tmp", "/", "d0">> >>,
     <<16, "ld3",    "lnk", <<"..", "/", "tmp", "/", "d0">> >>,
     <<16, "ld4",    "lnk", <<"..", "/", "..", "/", ".", "/", "..", "/", "..",
                              "/", "tmp", "/", "d0">> >>,
     <<16, "ld5",    "lnk", <<"..", "/", "tmp", "/", "d0", "/">> >>,
     <<16, "lf0",    "lnk", <<"/", "tmp", "/", "d0", "/", "d1", "/", "ld0", "/",
                              "..", "/", "/", "/", "/", "..", "/", "ld1", "/",
                              "d1", "/", "f0">> >>,
     <<16, "lf1",    "lnk", <<"/", "tmp", "/", "d0", "/", "d1", "/", "ld0", "/",
                              "..", "/", "..", "/", "ld1", "/", "d1", "/",
                              "f0">> >>,
     <<16, "ld6",    "lnk", <<"/">> >>,
     <<16, "passwd", "reg", <<>> >>,
     <<16, "lf2",    "lnk", <<"passwd">> >>,
     <<16, "lf3",    "lnk", <<"/", "etc", "/", "passwd">> >>,
     <<16, "lf4",    "lnk", <<"/", "tmp", "/", "passwd">> >>,
     <<16, "lf5",    "lnk", <<"..", "/", "etc", "/", "passwd">> >>,
     <<16, "lf6",    "lnk", <<".", "/", "d0", "/", "d1", "/", "f0">> >>,
     <<16, "lD0",    "lnk", <<"non-existing">> >>,
     <<16, "lD1",    "lnk", <<"/", "etc", "/", "group">> >>,
     <<16, "lD2",    "lnk", <<"lD2">> >>,
     <<9,  "f0",     "reg", <<>> >>,
     \* directories of links added to R: a chain, a doubling family, a cycle
     <<9,  "chain",  "dir", <<>> >>,
     <<47, "c0",     "dir", <<>> >>,
     <<9,  "exp",    "dir", <<>> >>,
     <<47, "la",     "lnk", <<"lb">> >>,
     <<47, "lb",     "lnk", <<"la">> >> >>

\* node of the fixture table with the given parent and name
FixNode(parent, name) ==
  CHOOSE n \in 1..Len(TEST_FS) :
    TEST_FS[n][1] = parent /\ TEST_FS[n][2] = name /\ (name = "" \/ n # parent)

HostRoot  == CHOOSE n \in 1..Len(TEST_FS) : TEST_FS[n][1] = n
\* Chroot::new(tmpdir/chroot)
RootNode  == FixNode(HostRoot, "chroot")
ChainDir  == FixNode(RootNode, "chain")
ChainEnd  == FixNode(ChainDir, "c0")
ExpDir    == FixNode(RootNode, "exp")

ChainLen == MAX_LOOP_CNT + ChainExtra

ChainName(i) == "c" \o ToString(i)
ExpName(i)   == "e" \o ToString(i)

FixIds    == 1..Len(TEST_FS)
ChainBase == Len(TEST_FS)
ExpBase   == ChainBase + ChainLen + 1
ChainIds  == {ChainBase + i : i \in 1..ChainLen}
ExpIds    == {ExpBase + i : i \in 0..ExpDepth}
NodeIds  == FixIds \cup ChainIds \cup ExpIds

\* the filesystem object with inode number n
FS ==
  [n \in NodeIds |->
     IF n \in FixIds
       THEN [parent |-> TEST_FS[n][1], name |-> TEST_FS[n][2],
             type |-> TEST_FS[n][3], target |-> TEST_FS[n][4]]
     ELSE IF n \in ChainIds
       THEN [parent |-> ChainDir, name |-> ChainName(n - ChainBase),
             type |-> "lnk", target |-> <<ChainName(n - ChainBase - 1)>>]
     ELSE IF n = ExpBase
       THEN [parent |-> ExpDir, name |-> ExpName(0),
             type |-> "lnk", target |-> <<Dot>>]
       ELSE [parent |-> ExpDir, name |-> ExpName(n - ExpBase),
             type |-> "lnk",
             target |-> <<ExpName(n - ExpBase - 1), Sep,
                          ExpName(n - ExpBase - 1)>>]]

\* the entries of every directory, by name (without "." and "..")
Entries ==
  [d \in NodeIds |->
     LET kids == {n \in NodeIds : FS[n].parent = d /\ n # d}
     IN  [nm \in {FS[n].name : n \in kids} |->
            CHOOSE n \in kids : FS[n].name = nm]]

-----------------------------------------------------------------------------
(* std::path: Path::components, is_absolute, parent, file_name *)

RootDirC   == [k |-> "RootDir",   n |-> ""]
CurDirC    == [k |-> "CurDir",    n |-> ""]
ParentDirC == [k |-> "ParentDir", n |-> ""]
NormalC(name) == [k |-> "Normal", n |-> name]

has_root(p) == Len(p) > 0 /\ p[1] = Sep

\* fault: the ensure! of chdir passes every path
is_absolute_any(p) == TRUE

is_absolute(p) == has_root(p)

\* the names of a path: its tokens but the separators and the "."
Segments(p) == SelectSeq(p, LAMBDA t : t # Sep /\ t # Dot)

ComponentOf(seg) == IF seg = DotDot THEN ParentDirC ELSE NormalC(seg)

Body(segs) == [i \in 1..Len(segs) |-> ComponentOf(segs[i])]

\* Components: a leading "/" is RootDir; a leading "." of a rootless path is
\* CurDir; every other "." and every empty segment is skipped.
Components(p) ==
  (IF has_root(p) THEN <<RootDirC>>
   ELSE IF Len(p) > 0 /\ p[1] = Dot THEN <<CurDirC>>
   ELSE <<>>)
  \o Body(Segments(p))

\* Path::parent: the path without its last component; None for "" and "/"
ParentOf(c) ==
  IF c = <<>> \/ c[Len(c)].k = "RootDir"
    THEN [some |-> FALSE, comps |-> <<>>]
    ELSE [some |-> TRUE,  comps |-> SubSeq(c, 1, Len(c) - 1)]

PathParent(p) == ParentOf(Components(p))

\* Path::file_name: the last component when it is a normal name
FileNameOf(c) ==
  IF c # <<>> /\ c[Len(c)].k = "Normal"
    THEN [some |-> TRUE,  n |-> c[Len(c)].n]
    ELSE [some |-> FALSE, n |-> ""]

PathFileName(p) == FileNameOf(Components(p))

-----------------------------------------------------------------------------
(* The kernel under src/fd.rs: descriptors are the objects they refer to *)

AT_FDCWD == -100

\* the process's working directory, on the host
CwdNode == HostRoot

\* bound of the kernel's own symlink following (ELOOP beyond it)
KernelMaxLinks == 40

Ok(n)  == [ok |-> TRUE,  node |-> n, err |-> ""]
Err(e) == [ok |-> FALSE, node |-> 0, err |-> e]

FdNode(fd) == IF fd = AT_FDCWD THEN CwdNode ELSE fd

\* a name looked up among the entries ents of a directory of the given
\* type and parent
LookupIn(d, type, parent, ents, name) ==
  IF type # "dir" THEN Err("ENOTDIR")
  ELSE IF name = Dot THEN Ok(d)
  ELSE IF name = DotDot THEN Ok(parent)
  ELSE IF name \in DOMAIN ents THEN Ok(ents[name])
  ELSE Err("ENOENT")

\* one name looked up in a directory, symlinks not followed
KLookup(d, name) == LookupIn(d, FS[d].type, FS[d].parent, Entries[d], name)

\* the rest of a path once a name of it is resolved
Rest(p) == SelectSeq(Tail(p), LAMBDA t : t # Sep)

\* one step of the kernel's own resolution of the path p from directory d,
\* r being the lookup of its first name: a leading "/" is the host root, a
\* symlink is replaced by its target
KStepOn(d, p, fuel, r) ==
  IF Head(p) = Sep THEN [r |-> Ok(HostRoot), p |-> Tail(p), fuel |-> fuel]
  ELSE IF ~r.ok THEN [r |-> r, p |-> <<>>, fuel |-> fuel]
  ELSE IF FS[r.node].type # "lnk" THEN [r |-> r, p |-> Rest(p), fuel |-> fuel]
  ELSE IF fuel = 0 THEN [r |-> Err("ELOOP"), p |-> <<>>, fuel |-> fuel]
  ELSE [r |-> Ok(d), p |-> FS[r.node].target \o Rest(p), fuel |-> fuel - 1]

KStep(d, p, fuel) ==
  KStepOn(d, p, fuel, IF Head(p) = Sep THEN Ok(d) ELSE KLookup(d, Head(p)))

RECURSIVE KWalk(_, _, _)
RECURSIVE KNext(_)
\* the kernel's own resolution of a path: every symlink is followed
KWalk(d, p, fuel) ==
  IF p = <<>> THEN Ok(d) ELSE KNext(KStep(d, p, fuel))

KNext(s) == IF ~s.r.ok THEN s.r ELSE KWalk(s.r.node, s.p, s.fuel)

\* the object a one-component lookup ends at, a final symlink followed or not
KFinal(fd, name, follow) ==
  IF follow THEN KWalk(FdNode(fd), <<name>>, KernelMaxLinks)
  ELSE KLookup(FdNode(fd), name)

\* the directories a filesystem is mounted on: none but for the client
\* whose tree has one on R/tmp/d0
Mounts == IF scn = "mount" THEN {FixNode(FixNode(RootNode, "tmp"), "d0")} ELSE {}

RECURSIVE Covers(_, _)
\* n is the directory m or lies below it
Covers(m, n) ==
  IF n = m THEN TRUE
  ELSE IF n = HostRoot THEN FALSE
  ELSE Covers(m, FS[n].parent)

\* st_dev: the filesystem's own device but below a mount point
Dev(n) == IF \E m \in Mounts : Covers(m, n) THEN 2 ELSE 1

\* d_ino of the entry of n in its parent's listing: the inode of n, but for a
\* mount point, where it is the inode of the directory mounted on
DIno(n) == IF n \in Mounts THEN ExpBase + ExpDepth + n ELSE n

Stat(n) == [st_dev |-> Dev(n), st_ino |-> n, st_mode |-> FS[n].type]

NoStat == [st_dev |-> 0, st_ino |-> 0, st_mode |-> "none"]

\* try_errno! around a stat call
StatResult(r) ==
  IF r.ok THEN [ok |-> TRUE, stat |-> Stat(r.node), err |-> ""]
  ELSE [ok |-> FALSE, stat |-> NoStat, err |-> r.err]

\* FdRaw::fstatat
fstatat(fd, name, do_follow) == StatResult(KFinal(fd, name, do_follow))

\* the match of FdRaw::is_file_type: an error of the stat reads as "no"
type_matches(stat, file_type) ==
  IF ~stat.ok THEN FALSE ELSE stat.stat.st_mode = file_type

\* FdRaw::is_file_type
is_file_type(fd, name, file_type) ==
  type_matches(fstatat(fd, name, FALSE), file_type)

is_lnkat(fd, name) == is_file_type(fd, name, "lnk")

\* open(2) on the object r a lookup ended at
OpenResult(r, type, oflags) ==
  IF ~r.ok THEN r
  ELSE IF type = "lnk"
    THEN IF "O_DIRECTORY" \in oflags THEN Err("ENOTDIR") ELSE Err("ELOOP")
  ELSE IF "O_DIRECTORY" \in oflags /\ type # "dir" THEN Err("ENOTDIR")
  ELSE r

TypeOf(r) == IF r.ok THEN FS[r.node].type ELSE "none"

OpenChecked(r, oflags) == OpenResult(r, TypeOf(r), oflags)

\* FdRaw::openat / Fd::openat, flags a set of O_ names
openat(fd, name, oflags) ==
  OpenChecked(KFinal(fd, name, "O_NOFOLLOW" \notin oflags), oflags)

ReadlinkResult(r, type) ==
  IF ~r.ok THEN [ok |-> FALSE, target |-> <<>>, err |-> r.err]
  ELSE IF type # "lnk" THEN [ok |-> FALSE, target |-> <<>>, err |-> "EINVAL"]
  ELSE [ok |-> TRUE, target |-> FS[r.node].target, err |-> ""]

ReadlinkChecked(r) == ReadlinkResult(r, TypeOf(r))

\* FdRaw::readlinkat
readlinkat(fd, name) == ReadlinkChecked(KLookup(FdNode(fd), name))

-----------------------------------------------------------------------------
(* src/chroot.rs: the engine's helpers *)

\* Chroot.root: the host path of R
root == <<Sep, "chroot">>

\* FdRaw::open / Fd::open: a host path, resolved by the kernel from the cwd
FdOpen(p, oflags) == OpenChecked(KWalk(CwdNode, p, KernelMaxLinks), oflags)

\* fault: the root handle is opened on the host's "/" instead of self.root
host_root_fd == FdOpen(<<Sep>>, {"O_DIRECTORY", "O_CLOEXEC", "O_RDONLY"})

\* open_flags of Chroot::root_fd
root_open_flags == {"O_DIRECTORY", "O_CLOEXEC", "O_RDONLY"}

\* Chroot::root_fd
root_fd == FdOpen(root, root_open_flags)

\* ChdirLoopEnv::new
NewEnv == [counter |-> MAX_LOOP_CNT, root_stat |-> NoStat]

\* fault: the opens of open_component without O_NOFOLLOW
open_flags_follow == {"O_DIRECTORY", "O_CLOEXEC", "O_RDONLY"}

\* open_flags of Chroot::open_component
open_flags == {"O_DIRECTORY", "O_CLOEXEC", "O_RDONLY", "O_NOFOLLOW"}

\* fault: the comparison with the root stat never succeeds
is_root_never(stat, root_stat) == FALSE

\* the comparison of Chroot::dir_info
is_root(stat, root_stat) ==
  stat.st_dev = root_stat.st_dev /\ stat.st_ino = root_stat.st_ino

\* Fd::cwd().fstatat(&self.root, true)
root_stat == StatResult(KWalk(CwdNode, root, KernelMaxLinks))

\* Chroot::dir_info, rs being the root stat now in env and st the stat of "."
DirInfoOf(e, rs, st) ==
  IF ~rs.ok THEN [ok |-> FALSE, err |-> rs.err, is_root |-> FALSE,
                  stat |-> NoStat, env |-> e]
  ELSE IF ~st.ok THEN [ok |-> FALSE, err |-> st.err, is_root |-> FALSE,
                       stat |-> NoStat,
                       env |-> [e EXCEPT !.root_stat = rs.stat]]
  ELSE [ok |-> TRUE, err |-> "", is_root |-> is_root(st.stat, rs.stat),
        stat |-> st.stat, env |-> [e EXCEPT !.root_stat = rs.stat]]

\* Chroot::dir_info: fills env.root_stat on first use, stats "." of dir_fd
dir_info(fd, e) ==
  DirInfoOf(e,
            IF e.root_stat = NoStat THEN root_stat
            ELSE [ok |-> TRUE, stat |-> e.root_stat, err |-> ""],
            fstatat(fd, Dot, FALSE))

\* fault: the ParentDir arm opens ".." whatever info.is_root says
OpenParentUnchecked(fd, info) ==
  IF ~info.ok
    THEN [r |-> Err(info.err), env |-> info.env, kept |-> FALSE, with |-> {}]
  ELSE [r |-> openat(fd, DotDot, open_flags), env |-> info.env,
        kept |-> FALSE, with |-> {open_flags}]

\* Chroot::open_component, ParentDir arm, info being dir_info(dir_fd, env)
\* (kept: the handle returned is dir_fd itself, nothing was opened)
OpenParentOf(fd, info) ==
  IF ~info.ok
    THEN [r |-> Err(info.err), env |-> info.env, kept |-> FALSE, with |-> {}]
  ELSE IF info.is_root
    THEN [r |-> Ok(fd), env |-> info.env, kept |-> TRUE, with |-> {}]
  ELSE [r |-> openat(fd, DotDot, open_flags), env |-> info.env,
        kept |-> FALSE, with |-> {open_flags}]

\* fault: the ParentDir arm opens ".." without asking dir_info
open_parent_raw(fd, e) ==
  [r |-> openat(fd, DotDot, open_flags), env |-> e, kept |-> FALSE,
   with |-> {open_flags}]

open_parent(fd, e) == OpenParentOf(fd, dir_info(fd, e))

\* Chroot::open_component, Normal arm
open_normal(fd, name) == openat(fd, name, open_flags)

\* Chroot::opendir_internal: the components chdir_internal walks and the
\* final component handed back
OpendirOf(c, par, fn) ==
  IF ~par.some THEN [comps |-> c, comp |-> Dot]
  ELSE [comps |-> par.comps, comp |-> IF fn.some THEN fn.n ELSE Dot]

opendir_internal(p) == OpendirOf(Components(p), PathParent(p), PathFileName(p))

\* Chroot::check_and_get_entry for an entry of inode d_ino and type d_type,
\* st being the stat of its name
EntryMatches(d_ino, d_type, st, info) ==
  IF d_ino # info.stat.st_ino THEN FALSE
  ELSE IF d_type # "dir" THEN FALSE
  ELSE st.ok /\ st.stat.st_mode = "dir"
             /\ st.stat.st_ino = info.stat.st_ino
             /\ st.stat.st_dev = info.stat.st_dev

DType(n) == FS[n].type

check_and_get_entry(dfd, name, info) ==
  EntryMatches(DIno(Entries[FdNode(dfd)][name]),
               DType(Entries[FdNode(dfd)][name]),
               fstatat(dfd, name, FALSE), info)

\* fault: res is not reversed before it is joined
KeepOrder(s) == s

Reverse(s) == [i \in 1..Len(s) |-> s[Len(s) + 1 - i]]

None    == [some |-> FALSE, p |-> <<>>]
Some(f) == [some |-> TRUE,  p |-> f]

\* fault: the assembly without the "/" of the root case
assemble_bare(names, f) ==
  LET r == Reverse(names)
  IN  [i \in 1..(2 * Len(r)) |-> IF i % 2 = 1 THEN Sep ELSE r[i \div 2]]
      \o (IF f.some THEN <<Sep>> \o f.p ELSE <<>>)

\* Chroot::full_path, path assembly: names holds res (leaf first), f is the
\* fname argument
assemble(names, f) ==
  LET r == Reverse(names)
      joined == [i \in 1..(2 * Len(r)) |->
                   IF i % 2 = 1 THEN Sep ELSE r[i \div 2]]
  IN  (IF r = <<>> /\ ~f.some THEN <<Sep>> ELSE <<>>)
      \o joined
      \o (IF f.some THEN <<Sep>> \o f.p ELSE <<>>)

-----------------------------------------------------------------------------
(* src/fd.rs: the descriptors behind the handles of a call.  A descriptor  *)
(* opened during the call has a number; 0 stands for a handle that shares  *)
(* the caller's descriptor (Fd::clone) or holds AT_FDCWD.                   *)

\* sys: a syscall was issued; failed: a syscall returned an error; missed:
\* full_path found no entry at a level; nfd: descriptors opened so far; live:
\* those open now; cur: the one behind dir_fd; tmp: the one behind the
\* temporary of Chroot::open; bad: a close of a descriptor not open; opens:
\* the flags of the opens issued for components and for the final name
NewAcct == [sys |-> FALSE, failed |-> FALSE, missed |-> FALSE, nfd |-> 0,
            live |-> {}, cur |-> 0, tmp |-> 0, bad |-> FALSE, opens |-> {}]

\* an open for a component of kind by was issued with each flag set of with
Issued(a, by, with) ==
  [a EXCEPT !.opens = @ \cup {[by |-> by, flags |-> f] : f \in with}]

\* a syscall has returned, with an error or not
Noted(a, ok) == [a EXCEPT !.sys = TRUE, !.failed = @ \/ ~ok]

\* Drop for FdRaw of the wrapper of descriptor id: close(fd) if it is managed
Closed(a, id) ==
  IF id = 0 THEN a
  ELSE [a EXCEPT !.live = @ \ {id}, !.bad = @ \/ id \notin a.live]

\* fault: the handle behind dir_fd is forgotten, not dropped
Dropped_leak(a) == [a EXCEPT !.cur = 0]

\* the handle behind dir_fd goes out of scope
Dropped(a) == [Closed(a, a.cur) EXCEPT !.cur = 0]

\* FdRaw::_new on the descriptor a successful open returned
Opened(a) == [a EXCEPT !.nfd = @ + 1, !.live = @ \cup {a.nfd + 1}]

\* dir_fd = <the result r of an open>: the old handle is dropped, and on
\* success the new descriptor is the one behind dir_fd
Took(a, r) ==
  IF r.ok THEN [Opened(Dropped(Noted(a, TRUE))) EXCEPT !.cur = a.nfd + 1]
  ELSE Dropped(Noted(a, FALSE))

\* the temporary root handle of Chroot::open goes out of scope
TmpDropped(a) == [Closed(a, a.tmp) EXCEPT !.tmp = 0]

-----------------------------------------------------------------------------
(* src/fd.rs: the life of an FdRaw.  fdraws holds the values made so far: *)
(* fd, is_managed, how it was made, whether it was dropped, and the number  *)
(* of close(fd) its drop has issued.                                         *)

\* the values a client makes
MaxFdRaw == 3

\* the descriptor numbers it wraps
RawFds == {0, 3, 5}

\* fault: every FdRaw owns its descriptor
managed_always(fd) == TRUE

\* is_managed of FdRaw::_new
managed(fd) == fd >= 0 /\ fd # AT_FDCWD

FdRaw_new(fd) ==
  [fd |-> fd, is_managed |-> managed(fd), by |-> "new", dropped |-> FALSE,
   closes |-> 0]

FdRaw_new_unmanaged(fd) ==
  [fd |-> fd, is_managed |-> FALSE, by |-> "unmanaged", dropped |-> FALSE,
   closes |-> 0]

\* Drop for FdRaw
FdRaw_drop(w) ==
  [w EXCEPT !.dropped = TRUE,
            !.closes = IF w.is_managed THEN @ + 1 ELSE @]

\* fault: the wrapper keeps its descriptor after handing it over
handed_over_not(w) == w

\* self.is_managed.set(false): the descriptor has another owner now
handed_over(w) == [w EXCEPT !.is_managed = FALSE]

\* FdRaw::into_file: the File takes the descriptor, then self is dropped
FdRaw_into_file(w) == FdRaw_drop([handed_over(w) EXCEPT !.by = "file"])

-----------------------------------------------------------------------------
(* src/fd.rs: Fd, an Rc<FdRaw>.  rc holds the FdRaw, the number of clones  *)
(* alive, and the outcome of the last into_rawfd with the number of clones  *)
(* it found.                                                                 *)

\* the clones a client makes of one Fd
MaxClones == 6

NoRc == [strong |-> 0, raw |-> FdRaw_new_unmanaged(0), got |-> "none",
         was |-> 0, owned |-> FALSE]

\* Fd::from_rawfd
Fd_from_rawfd(raw) ==
  [strong |-> 1, raw |-> raw, got |-> "none", was |-> 0, owned |-> FALSE]

\* fault: into_rawfd takes the FdRaw whoever else shares it
try_unwrap_any(strong) == TRUE

\* Rc::try_unwrap succeeds for the sole reference
try_unwrap(strong) == strong = 1

\* Fd::into_rawfd: Ok(FdRaw), owned by the caller, or Err(Fd)
Fd_into_rawfd_of(r) ==
  IF try_unwrap(r.strong)
    THEN [r EXCEPT !.strong = 0, !.got = "Ok", !.was = r.strong,
                   !.owned = TRUE]
    ELSE [r EXCEPT !.got = "Err", !.was = r.strong]

\* Drop for Fd: the last clone drops the FdRaw
Fd_drop_of(r) ==
  [r EXCEPT !.strong = @ - 1,
            !.raw = IF r.strong = 1 THEN FdRaw_drop(@) ELSE @]

-----------------------------------------------------------------------------
(* src/dir.rs: Dir::fdopendir and Drop for Dir.  A Dir of dirs holds its    *)
(* descriptor, the index in fdraws of the FdRaw that opened it and of the    *)
(* handle it was made from, and the number of closedir calls.                *)

\* the descriptor a successful open returns: one not in use
Fresh == 10 + Len(fdraws)

\* fault: the stream is built on the handle's own descriptor
stream_fd_same(h, fresh) == h

\* fd.to_fdraw().openat(".", FLAGS): the stream's descriptor
stream_fd(h, fresh) == fresh

\* the FdRaw of the fresh descriptor when fdopendir returns: handed over to
\* the stream, or still managed after ensure!(!dir.is_null()) failed
Dir_fd_after(w, ok) ==
  IF ok THEN FdRaw_drop([handed_over(w) EXCEPT !.by = "dir"])
  ELSE FdRaw_drop(w)

\* Ok(Dir { dirp })
Dir_new(fd, of, from) ==
  [fd |-> fd, of |-> of, from |-> from, dropped |-> FALSE, closes |-> 0]

\* Drop for Dir: closedir(self.dirp)
Dir_drop_of(d) == [d EXCEPT !.dropped = TRUE, !.closes = @ + 1]

-----------------------------------------------------------------------------
(* src/fd.rs: FdRaw::readlinkat on a link whose target has rl.n bytes: the *)
(* capacity of buf, its length, and whether the call has returned.           *)

\* the longest target
MaxTarget == 800

\* Vec::with_capacity(256), buf.reserve(256)
BufStep == 256

NoReadlink == [n |-> 0, cap |-> BufStep, len |-> 0, done |-> TRUE, turns |-> 0]

\* let mut buf = Vec::with_capacity(256)
Readlink_new(n) ==
  [n |-> n, cap |-> BufStep, len |-> 0, done |-> FALSE, turns |-> 0]

\* libc::readlinkat: the bytes written, the target cut at bufsiz
KReadlinkLen(n, bufsiz) == IF n < bufsiz THEN n ELSE bufsiz

\* buf.reserve(256) with len = capacity: the new capacity is at least
\* len + 256, and twice the old one when Vec grows by doubling
Reserved(cap) ==
  {cap + BufStep, IF 2 * cap > cap + BufStep THEN 2 * cap ELSE cap + BufStep}

\* fault: the call returns whatever the length
returns_always(buf_sz, cap) == TRUE

\* if buf_sz != buf.capacity() { return Ok(..) }
returns(buf_sz, cap) == buf_sz # cap

\* one turn of the loop, buf_sz being the result of libc::readlinkat and
\* newcap the capacity after reserve
Readlink_turn(r, buf_sz, newcap) ==
  IF returns(buf_sz, r.cap)
    THEN [r EXCEPT !.len = buf_sz, !.done = TRUE, !.turns = @ + 1]
    ELSE [r EXCEPT !.len = buf_sz, !.cap = newcap, !.turns = @ + 1]

-----------------------------------------------------------------------------
(* src/dir.rs: ReadDir over a stream whose readdir calls return the items  *)
(* of rdir.todo in turn, then NULL with errno 0 for ever.                    *)

\* length of the stream of readdir results
MaxStream == 4

\* what a readdir call returns: an entry's name, or NULL with errno set
ReaddirResults == {Dot, DotDot, "a", "b", "EIO"}

RECURSIVE SeqsUpTo(_, _)
SeqsUpTo(S, n) ==
  IF n = 0 THEN {<<>>}
  ELSE LET shorter == SeqsUpTo(S, n - 1)
       IN  shorter \cup {Append(q, x) : q \in shorter, x \in S}

NoReadDir == [todo |-> <<>>, failed |-> FALSE, taken |-> <<>>, out |-> <<>>]

\* ReadDir::new
ReadDir_new(stream) ==
  [todo |-> stream, failed |-> FALSE, taken |-> <<>>, out |-> <<>>]

\* fault: only "." is skipped
skips_dot_only(name) == name = Dot

\* the match on entry.name() in next: '.' and '..' are ignored
skips(name) == name \in {Dot, DotDot}

RECURSIVE ReadDir_next(_)
\* Iterator::next for ReadDir: the loop, up to its break
ReadDir_next(r) ==
  IF r.todo = <<>>
    THEN [r EXCEPT !.out = Append(@, "None")]
  ELSE IF Head(r.todo) = "EIO"
    THEN IF r.failed
           THEN [r EXCEPT !.todo = Tail(@), !.taken = Append(@, "EIO"),
                          !.out = Append(@, "None")]
           ELSE [r EXCEPT !.todo = Tail(@), !.taken = Append(@, "EIO"),
                          !.failed = TRUE, !.out = Append(@, "Err")]
  ELSE IF skips(Head(r.todo))
    THEN ReadDir_next([r EXCEPT !.todo = Tail(@), !.failed = FALSE,
                                !.taken = Append(@, Head(r.todo))])
  ELSE [r EXCEPT !.todo = Tail(@), !.failed = FALSE,
                 !.taken = Append(@, Head(r.todo)),
                 !.out = Append(@, Head(r.todo))]

-----------------------------------------------------------------------------
(* The clients: what they hold and which paths they pass *)

RECURSIVE InsideR(_)
\* n lies in the subtree rooted at R
InsideR(n) ==
  IF n = RootNode THEN TRUE
  ELSE IF n \notin NodeIds \/ n = HostRoot THEN FALSE
  ELSE InsideR(FS[n].parent)

RNodes == {n \in NodeIds : InsideR(n)}

RECURSIVE RealPath(_)
\* the absolute path, within R, of the object n of R's subtree
RealPath(n) ==
  IF n = RootNode THEN <<Sep>>
  ELSE IF FS[n].parent = RootNode THEN <<Sep, FS[n].name>>
  ELSE RealPath(FS[n].parent) \o <<Sep, FS[n].name>>

RECURSIVE Depth(_)
Depth(n) == IF n = RootNode THEN 0 ELSE 1 + Depth(FS[n].parent)

FixInside == RNodes \cap FixIds

RECURSIVE Ups(_)
\* n times "../"
Ups(n) == IF n = 0 THEN <<>> ELSE <<DotDot, Sep>> \o Ups(n - 1)

FixturePaths ==
  {RealPath(n) : n \in FixInside}
  \cup {<<FS[n].name>> : n \in FixInside \ {RootNode}}
  \cup {FS[n].target : n \in {m \in FixInside : FS[m].type = "lnk"}}
  \cup { <<>>, <<Dot>>, <<DotDot>>, <<DotDot, Sep, DotDot>>, <<Sep, DotDot>>,
         <<"tmp", Sep, DotDot>>,
         <<Sep, "tmp", Sep, "ld6", Sep, "etc">>,
         <<Sep, "tmp", Sep, "ld6", Sep, DotDot, Sep, DotDot, Sep, "etc", Sep, "group">>,
         <<DotDot, Sep, DotDot, Sep, DotDot, Sep, "etc", Sep, "passwd">>,
         <<Sep, "tmp", Sep, "d0", Sep, "d1", Sep, "ld0", Sep, DotDot, Sep,
           DotDot, Sep, "ld1", Sep, "d1", Sep, "f0">> }

DeepPaths ==
  {<<Sep, "chain", Sep, ChainName(i)>> : i \in 0..ChainLen}
  \cup {<<Sep, "exp", Sep, ExpName(i)>> : i \in 0..ExpDepth}
  \cup { <<Sep, "chain", Sep, "la">>,
         <<Sep, "chain", Sep, "c0", Sep, DotDot, Sep, "c1">>,
         <<Sep, "chain", Sep, "c1", Sep, "c0">>,
         <<"chain">> }

PairTails ==
  { <<>>, <<"etc">>, <<"tmp", Sep, "d0", Sep, "d1">>,
    <<"tmp", Sep, "ld6", Sep, "etc">>, <<"tmp", Sep, "ld4", Sep, "d1">>,
    <<"nowhere">>, <<"tmp", Sep, "passwd", Sep, "x">>,
    <<"tmp", Sep, "lD1">>, <<"chain", Sep, "c2">>,
    <<"tmp", Sep, "ld1", Sep, "d1">>, <<"chain", Sep, "la">> }

PairPaths == {<<Sep>> \o Ups(n) \o q : n \in 0..MaxUp, q \in PairTails}

\* the paths of the client that asks the type predicates twice in a row
PredPaths ==
  { <<Sep, "tmp", Sep, "d0">>, <<Sep, "tmp", Sep, "lf2">>,
    <<Sep, "tmp", Sep, "lD0">>, <<Sep, "tmp", Sep, "lD2">>,
    <<Sep, "etc", Sep, "passwd">>, <<Sep, "tmp", Sep, "ld1", Sep, "d1">>,
    <<Sep, "tmp", Sep, "ld1", Sep, DotDot>>, <<Sep>>, <<>>, <<"etc">>,
    <<Sep, "nowhere">>, <<Sep, "tmp", Sep, "passwd", Sep, "x">>,
    <<Sep, "chain", Sep, "la", Sep, "x">> }

\* the paths of the client whose kernel may fail a stat
FaultPaths ==
  { <<Sep, "etc">>, <<Sep, "tmp">>, <<Sep, "tmp", Sep, "d0", Sep, "d1">>,
    <<Sep, "tmp", Sep, "ld4", Sep, "d1">>, <<Sep, "tmp", Sep, "ld6", Sep, "etc">>,
    <<Sep, "nowhere">>, <<Sep, "tmp", Sep, "passwd", Sep, "x">>,
    <<Sep, "tmp", Sep, "lf2">>, <<Sep, "chain", Sep, "la">>,
    <<"lD2">>, <<"lf2">>, <<Dot, Sep, "ld4">>, <<DotDot, Sep, "etc">>,
    <<DotDot, Sep, DotDot, Sep, "tmp", Sep, "lf3">> }

\* the links of R/chain by name, for openat from a handle of R/chain, and
\* absolute paths to that directory and through links, `.` and `..`
ChainPaths ==
  {<<ChainName(i)>> : i \in 0..ChainLen}
  \cup { <<"la">>,
         <<Sep, "chain">>,
         <<Sep, "chain", Sep, "c1">>,
         <<Sep, "chain", Sep, "c0", Sep, DotDot, Sep, "c1">>,
         <<Sep, "chain", Sep, "la">>,
         <<Sep, "exp", Sep, "e0">> }

\* the paths of the client that resolves a path with chdirat and then opens
\* or stats it from the same handle
AgreePaths ==
  { <<"tmp">>, <<"tmp", Sep, "d0">>, <<Dot>>, <<"tmp", Sep, Dot>>,
    <<DotDot>>, <<"tmp", Sep, DotDot>>, <<"d0", Sep, DotDot>>,
    <<Sep, "tmp", Sep, "d0", Sep, DotDot>>, <<Sep>>, <<"etc", Sep, "passwd">>,
    <<"chain">>, <<"la">>, <<"tmp", Sep, "ld0">> }

\* the paths of the client whose calls are followed to their return: plain
\* ones, a missing one, and links that lead back to themselves, met inside a
\* path and as its last component
TermPaths ==
  { <<Sep, "chain">>, <<Sep, "tmp">>, <<Sep, "tmp", Sep, "d0", Sep, "d1">>,
    <<Sep, "nowhere">>, <<DotDot>>, <<"passwd">>,
    <<Dot, Sep, "d0", Sep, DotDot, Sep, "ld4", Sep, "d1">>,
    <<"la">>, <<"lD2">> }

Paths(s) ==
  IF s = "fixture" THEN FixturePaths
  ELSE IF s = "term" THEN TermPaths
  ELSE IF s = "agree" THEN AgreePaths
  ELSE IF s = "chain" THEN ChainPaths
  ELSE IF s = "deep" THEN DeepPaths
  ELSE IF s = "pred" THEN PredPaths
  ELSE IF s = "fault" THEN FaultPaths
  ELSE PairPaths

FlagSets == { {"O_RDONLY", "O_CLOEXEC"},
              {"O_RDONLY", "O_CLOEXEC", "O_DIRECTORY"} }

\* the fname arguments of full_path: none, or the name of an entry
FNames == {None} \cup {Some(<<FS[n].name>>) : n \in FixInside \ {RootNode}}

\* Chroot::is_lnkat, is_dirat, is_regat and the file type each asks for
IsOps == {"is_lnkat", "is_dirat", "is_regat"}

\* fault: every predicate asks for a directory
FileType_dir(o) == "dir"

FileType(o) ==
  IF o = "is_lnkat" THEN "lnk" ELSE IF o = "is_dirat" THEN "dir" ELSE "reg"

NoResult == [kind |-> "none", node |-> 0, str |-> <<>>, err |-> ""]
RFd(n)   == [kind |-> "fd",   node |-> n, str |-> <<>>, err |-> ""]
RPath(p) == [kind |-> "path", node |-> 0, str |-> p,    err |-> ""]
RErr(e)  == [kind |-> "err",  node |-> 0, str |-> <<>>, err |-> e]
\* Ok(stat) of Chroot::fstatat
RStat(st) == [kind |-> "stat", node |-> 0, str |-> <<>>, err |-> "", stat |-> st]
\* the bool of a type predicate; err is the error unwrap_or(false) discarded
RBool(b, e) == [kind |-> "bool", node |-> 0, str |-> <<>>, err |-> e, b |-> b]

NoPath == [set |-> FALSE, str |-> <<>>, of |-> 0, fname |-> None]
NoPrev == [op |-> "none", path |-> <<>>, result |-> NoResult, base |-> 0]

-----------------------------------------------------------------------------
(* Initial states: no call in progress, the client holds chroot.root_fd() *)

InitEngine(s) ==
  /\ scn = s
  /\ pc = "idle"
  /\ op = "none"
  /\ base = AT_FDCWD
  /\ arg = <<>>
  /\ path = <<>>
  /\ flags = {}
  /\ fname = None
  /\ stack = <<>>
  /\ dir_fd = AT_FDCWD
  /\ env = NewEnv
  /\ num_loops = 0
  /\ comp = Dot
  /\ res = <<>>
  /\ result = NoResult
  /\ held = root_fd.node
  /\ heldPath = NoPath
  /\ prev = NoPrev
  /\ expansions = 0
  /\ maxdepth = 0
  /\ acct = NewAcct

InitOf(s) ==
  /\ InitEngine(s)
  /\ fdraws = <<>>
  /\ rdir = NoReadDir
  /\ rc = NoRc
  /\ dirs = <<>>
  /\ rl = NoReadlink

Init     == InitOf("fixture")
InitDeep == InitOf("deep")
InitPair == InitOf("pair")

-----------------------------------------------------------------------------
(* Top-level calls *)

\* the paths the client may pass now: the string full_path has just returned,
\* or else one of its own
Args ==
  IF ~heldPath.set THEN Paths(scn)
  ELSE IF heldPath.fname.some /\ prev = NoPrev
    THEN {heldPath.str, heldPath.fname.p}
  ELSE {heldPath.str}

Begin(o, b, p, f, fn) ==
  /\ op' = o
  /\ base' = b
  /\ arg' = p
  /\ path' = p
  /\ flags' = f
  /\ fname' = fn
  /\ env' = NewEnv
  /\ res' = <<>>
  /\ expansions' = 0
  /\ maxdepth' = 0
  /\ heldPath' = heldPath
  /\ UNCHANGED <<scn, held, prev, fdraws, rdir, rc, dirs, rl>>

\* Chroot::chdir
chdir ==
  /\ pc = "idle"
  /\ \E p \in Args :
       /\ Begin("chdir", AT_FDCWD, p, {}, None)
       /\ dir_fd' = AT_FDCWD
       /\ num_loops' = 0
       /\ comp' = Dot
       /\ acct' = NewAcct
       /\ IF is_absolute(p)
            THEN /\ stack' = <<Components(p)>>
                 /\ result' = NoResult
                 /\ pc' = "walk"
            ELSE /\ stack' = <<>>
                 /\ result' = RErr("validation")
                 /\ pc' = "done"

\* Chroot::chdirat
chdirat ==
  /\ pc = "idle"
  /\ \E p \in Args :
       /\ Begin("chdirat", held, p, {}, None)
       /\ dir_fd' = held
       /\ num_loops' = 0
       /\ comp' = Dot
       /\ acct' = NewAcct
       /\ stack' = <<Components(p)>>
       /\ result' = NoResult
       /\ pc' = "walk"

\* a turn of the loop of openat starts: opendir_internal(dir_fd, path, env)
\* enters chdir_internal from the handle b, od being the split of the path
EnterOpendir(b, od) ==
  /\ dir_fd' = b
  /\ comp' = od.comp
  /\ stack' = <<od.comps>>
  /\ result' = NoResult
  /\ pc' = "walk"

\* Chroot::openat, up to the first opendir_internal
Chroot_openat ==
  /\ pc = "idle"
  /\ \E p \in Args, f \in FlagSets :
       /\ Begin("openat", held, p, f, None)
       /\ num_loops' = MAX_LOOP_CNT
       /\ acct' = NewAcct
       /\ EnterOpendir(held, opendir_internal(p))

\* openat(&self.root_fd()?, path, flags), r being the root handle
OpenFrom(r, p, f) ==
  /\ Begin("open", IF r.ok THEN r.node ELSE AT_FDCWD, p, f, None)
  /\ num_loops' = MAX_LOOP_CNT
  /\ acct' = IF r.ok THEN [Opened(Noted(NewAcct, TRUE)) EXCEPT !.tmp = 1]
                     ELSE Noted(NewAcct, FALSE)
  /\ IF r.ok
       THEN EnterOpendir(r.node, opendir_internal(p))
       ELSE /\ dir_fd' = AT_FDCWD
            /\ comp' = Dot
            /\ stack' = <<>>
            /\ result' = RErr(r.err)
            /\ pc' = "done"

\* Chroot::open: openat from a fresh root_fd()
Chroot_open ==
  /\ pc = "idle"
  /\ \E p \in Args, f \in FlagSets : OpenFrom(root_fd, p, f)

\* Chroot::fstatat, from the handle the client holds or from its root handle
Chroot_fstatat ==
  /\ pc = "idle"
  /\ \E p \in Args, b \in {held, RootNode} :
       /\ Begin("fstatat", b, p, {}, None)
       /\ num_loops' = 0
       /\ acct' = NewAcct
       /\ EnterOpendir(b, opendir_internal(p))

\* Chroot::is_lnkat, is_dirat, is_regat
Chroot_is_at ==
  /\ pc = "idle"
  /\ \E p \in Args, o \in IsOps :
       /\ Begin(o, held, p, {}, None)
       /\ num_loops' = 0
       /\ acct' = NewAcct
       /\ EnterOpendir(held, opendir_internal(p))

\* Chroot::full_path, up to the loop
full_path ==
  /\ pc = "idle"
  /\ \E fn \in FNames :
       /\ Begin("full_path", held, <<>>, {}, fn)
       /\ dir_fd' = held
       /\ num_loops' = 0
       /\ comp' = Dot
       /\ acct' = NewAcct
       /\ stack' = <<>>
       /\ result' = NoResult
       /\ pc' = "fp"

-----------------------------------------------------------------------------
(* Chroot::chdir_internal: one action per component arm.  stack holds, for *)
(* each active chdir_internal, the components its loop has not yet taken.   *)

Top == stack[Len(stack)]

AtComponent(kind) ==
  /\ pc = "walk"
  /\ Top # <<>>
  /\ Head(Top).k = kind

\* the loop of the innermost activation moves on with dir_fd = fd
Advance(fd) ==
  /\ dir_fd' = fd
  /\ stack' = [stack EXCEPT ![Len(stack)] = Tail(Top)]
  /\ pc' = "walk"
  /\ result' = result

\* `?`: the innermost activation returns Err(e)
Fail(e) ==
  /\ dir_fd' = dir_fd
  /\ stack' = stack
  /\ pc' = "unwind"
  /\ result' = RErr(e)

Settle(r) == IF r.ok THEN Advance(r.node) ELSE Fail(r.err)

WalkFrame == <<scn, op, base, arg, path, flags, fname, num_loops, comp, res,
               held, heldPath, prev, fdraws, rdir, rc, dirs, rl>>

StepRootDir ==
  /\ AtComponent("RootDir")
  /\ Settle(root_fd)
  /\ acct' = Took(Issued(acct, "RootDir", {root_open_flags}), root_fd)
  /\ UNCHANGED <<env, expansions, maxdepth>>
  /\ UNCHANGED WalkFrame

StepCurDir ==
  /\ AtComponent("CurDir")
  /\ Advance(dir_fd)
  /\ UNCHANGED <<env, expansions, maxdepth, acct>>
  /\ UNCHANGED WalkFrame

SettleParent(o) ==
  /\ Settle(o.r)
  /\ env' = o.env
  /\ acct' = IF o.kept THEN Noted(acct, TRUE)
             ELSE Took(Issued(acct, "ParentDir", o.with), o.r)

StepParentDir ==
  /\ AtComponent("ParentDir")
  /\ SettleParent(open_parent(dir_fd, env))
  /\ UNCHANGED <<expansions, maxdepth>>
  /\ UNCHANGED WalkFrame

\* the Normal arm once is_lnkat said no, st being the stat is_lnkat made and
\* r the result of open_component
SettleNormal(st, r) ==
  /\ ~type_matches(st, "lnk")
  /\ Settle(r)
  /\ acct' = Took(Issued(Noted(acct, st.ok), "Normal", {open_flags}), r)

StepNormal ==
  /\ AtComponent("Normal")
  /\ SettleNormal(fstatat(dir_fd, Head(Top).n, FALSE),
                  open_normal(dir_fd, Head(Top).n))
  /\ UNCHANGED <<env, expansions, maxdepth>>
  /\ UNCHANGED WalkFrame

\* fault: the budget test is late by one
budget_left_late(e) == e.counter # -1

\* a symlink met with the budget used up
budget_left(e) == e.counter # 0

StepSymlinkBail ==
  /\ AtComponent("Normal")
  /\ is_lnkat(dir_fd, Head(Top).n)
  /\ ~budget_left(env)
  /\ Fail("loop")
  /\ acct' = Dropped(Noted(acct, TRUE))
  /\ UNCHANGED <<env, expansions, maxdepth>>
  /\ UNCHANGED WalkFrame

\* fault: the counter is not decremented before the recursive call
descend_none(e) == e

\* env.counter -= 1 before the recursive call
descend(e) == [e EXCEPT !.counter = e.counter - 1]

\* fault: the counter is not restored after the recursive call
ascend_none(e) == e

\* env.counter += 1 after it
ascend(e) == [e EXCEPT !.counter = e.counter + 1]

\* chdir_internal(dir_fd, link, env) between the two counter updates,
\* new_path being the result of readlinkat
Expand(new_path) ==
  IF new_path.ok
    THEN /\ env' = descend(env)
         /\ stack' = Append([stack EXCEPT ![Len(stack)] = Tail(Top)],
                            Components(new_path.target))
         /\ dir_fd' = dir_fd
         /\ pc' = "walk"
         /\ result' = result
         /\ expansions' = expansions + 1
         /\ maxdepth' = IF Len(stack) > maxdepth THEN Len(stack) ELSE maxdepth
         /\ acct' = Noted(acct, TRUE)
    ELSE /\ Fail(new_path.err)
         /\ acct' = Dropped(Noted(acct, FALSE))
         /\ UNCHANGED <<env, expansions, maxdepth>>

\* a symlink: readlinkat, then chdir_internal(dir_fd, link, env)
StepSymlink ==
  /\ AtComponent("Normal")
  /\ is_lnkat(dir_fd, Head(Top).n)
  /\ budget_left(env)
  /\ Expand(readlinkat(dir_fd, Head(Top).n))
  /\ UNCHANGED WalkFrame

\* a recursive chdir_internal returns Ok(dir_fd) to the activation below
FrameReturn ==
  /\ pc = "walk"
  /\ Top = <<>>
  /\ Len(stack) > 1
  /\ stack' = SubSeq(stack, 1, Len(stack) - 1)
  /\ env' = ascend(env)
  /\ UNCHANGED <<pc, dir_fd, result, expansions, maxdepth, acct>>
  /\ UNCHANGED WalkFrame

\* a recursive chdir_internal returns Err: counter restored, then `res?`
Unwind ==
  /\ pc = "unwind"
  /\ Len(stack) > 1
  /\ stack' = SubSeq(stack, 1, Len(stack) - 1)
  /\ env' = ascend(env)
  /\ UNCHANGED <<pc, dir_fd, result, expansions, maxdepth, acct>>
  /\ UNCHANGED WalkFrame

\* fault: a predicate returns the error of its walk
Propagated_raw(o, r) == r

\* what the top-level call makes of the Err its walk returned: the type
\* predicates turn it into false (unwrap_or), the others return it
Propagated(o, r) == IF o \in IsOps THEN RBool(FALSE, r.err) ELSE r

\* the outermost chdir_internal returns Err to the top-level call
UnwindReturn ==
  /\ pc = "unwind"
  /\ Len(stack) = 1
  /\ stack' = <<>>
  /\ pc' = "done"
  /\ result' = Propagated(op, result)
  /\ acct' = TmpDropped(acct)
  /\ UNCHANGED <<dir_fd, env, expansions, maxdepth>>
  /\ UNCHANGED WalkFrame

\* chdir / chdirat: the outermost chdir_internal returns Ok(dir_fd)
ChdirReturn ==
  /\ pc = "walk"
  /\ op \in {"chdir", "chdirat"}
  /\ Top = <<>>
  /\ Len(stack) = 1
  /\ stack' = <<>>
  /\ result' = RFd(dir_fd)
  /\ pc' = "done"
  /\ UNCHANGED <<dir_fd, env, expansions, maxdepth, acct>>
  /\ UNCHANGED WalkFrame

-----------------------------------------------------------------------------
(* Chroot::openat: the retry loop around opendir_internal *)

\* opendir_internal returns (dir_fd, comp); assert_eq!(env.counter, MAX_LOOP_CNT)
OpendirReturn ==
  /\ pc = "walk"
  /\ op \notin {"chdir", "chdirat"}
  /\ Top = <<>>
  /\ Len(stack) = 1
  /\ stack' = <<>>
  /\ pc' = IF op \in {"open", "openat"} /\ env.counter # MAX_LOOP_CNT
             THEN "panic" ELSE "terminal"
  /\ UNCHANGED <<dir_fd, env, result, expansions, maxdepth, acct>>
  /\ UNCHANGED WalkFrame

\* fault: the terminal open with the caller's flags alone
terminal_flags_raw(f) == f

\* flags of the terminal open
terminal_flags(f) == f \cup {"O_NOFOLLOW"}

FdResult(r) == IF r.ok THEN RFd(r.node) ELSE RErr(r.err)

\* the final component is no symlink: return dir_fd.openat(comp, flags|O_NOFOLLOW)
\* st is the stat is_lnkat made, r the result of the open
TerminalSettle(st, r) ==
  /\ ~type_matches(st, "lnk")
  /\ result' = FdResult(r)
  /\ acct' = TmpDropped(Took(Issued(Noted(acct, st.ok), "terminal",
                                   {terminal_flags(flags)}), r))

TerminalOpen ==
  /\ pc = "terminal"
  /\ op \in {"open", "openat"}
  /\ TerminalSettle(fstatat(dir_fd, comp, FALSE),
                    openat(dir_fd, comp, terminal_flags(flags)))
  /\ pc' = "done"
  /\ UNCHANGED <<dir_fd, env, stack, expansions, maxdepth>>
  /\ UNCHANGED WalkFrame

\* where the next turn of the loop starts: the dir_fd argument of openat
retry_base(b, d) == b

\* fault: the turn is not counted
spent_none(n) == n

\* num_loops -= 1
spent(n) == n - 1

\* path = readlinkat(comp)?; num_loops -= 1; the next turn of the loop
Retry(l) ==
  IF l.ok
    THEN /\ path' = l.target
         /\ num_loops' = spent(num_loops)
         /\ EnterOpendir(retry_base(base, dir_fd), opendir_internal(l.target))
         /\ acct' = Dropped(Noted(acct, TRUE))
    ELSE /\ result' = RErr(l.err)
         /\ pc' = "done"
         /\ acct' = TmpDropped(Dropped(Noted(acct, FALSE)))
         /\ UNCHANGED <<path, num_loops, dir_fd, stack, comp>>

\* the final component is a symlink: path = its target, and the loop goes on
TerminalRetry ==
  /\ pc = "terminal"
  /\ op \in {"open", "openat"}
  /\ is_lnkat(dir_fd, comp)
  /\ num_loops - 1 > 0
  /\ Retry(readlinkat(dir_fd, comp))
  /\ UNCHANGED <<scn, op, base, arg, flags, fname, res, held, heldPath, prev,
                 env, expansions, maxdepth, fdraws, rdir,
                 rc, dirs, rl>>

\* path = readlinkat(comp)?; num_loops -= 1; the loop ends; bail!
LastTurn(l) ==
  /\ path' = IF l.ok THEN l.target ELSE path
  /\ num_loops' = IF l.ok THEN 0 ELSE num_loops
  /\ result' = IF l.ok THEN RErr("loop") ELSE RErr(l.err)
  /\ acct' = TmpDropped(Dropped(Noted(acct, l.ok)))

\* the final component is a symlink on the last turn of the loop
TerminalBail ==
  /\ pc = "terminal"
  /\ op \in {"open", "openat"}
  /\ is_lnkat(dir_fd, comp)
  /\ num_loops - 1 = 0
  /\ LastTurn(readlinkat(dir_fd, comp))
  /\ pc' = "done"
  /\ UNCHANGED <<dir_fd, stack, comp>>
  /\ UNCHANGED <<scn, op, base, arg, flags, fname, res, held, heldPath, prev,
                 env, expansions, maxdepth, fdraws, rdir,
                 rc, dirs, rl>>

-----------------------------------------------------------------------------
(* Chroot::fstatat and the type predicates: the stat of the last component *)

\* fault: the stat follows a symlink in the last component
follow_links == TRUE

\* let do_follow = false
do_follow == FALSE

\* the value of the call, st being the result of dir_fd.fstatat(comp, false):
\* Chroot::fstatat returns it, a predicate is_file_type's match on it
Answered(o, st) ==
  IF o \in IsOps THEN RBool(type_matches(st, FileType(o)), st.err)
  ELSE IF st.ok THEN RStat(st.stat)
  ELSE RErr(st.err)

StatReturn(st) ==
  /\ result' = Answered(op, st)
  /\ acct' = Dropped(Noted(acct, st.ok))

TerminalStat ==
  /\ pc = "terminal"
  /\ op \in IsOps \cup {"fstatat"}
  /\ StatReturn(fstatat(dir_fd, comp, do_follow))
  /\ pc' = "done"
  /\ UNCHANGED <<dir_fd, stack, env, expansions, maxdepth>>
  /\ UNCHANGED WalkFrame

-----------------------------------------------------------------------------
(* Chroot::full_path: one step per turn of the upward loop *)

FpFrame == <<scn, op, base, arg, path, flags, fname, num_loops, comp, stack,
             held, heldPath, prev, expansions, maxdepth, fdraws, rdir,
                 rc, dirs, rl>>

\* Dir::fdopendir and Drop for Dir: the stream's descriptor, opened on "."
\* and closed by closedir when the turn ends
Streamed(a) == Closed(Opened(a), a.nfd + 1)

\* flags of the open of ".." in full_path
parent_flags == {"O_CLOEXEC", "O_RDONLY", "O_DIRECTORY"}

\* flags of the open of "." in Dir::fdopendir
fdopendir_flags == {"O_DIRECTORY", "O_CLOEXEC", "O_RDONLY", "O_NOFOLLOW"}

\* the directory stream of dir_fd.openat("..") and Dir::fdopendir
ParentDirOf(up) == IF up.ok THEN openat(up.node, Dot, fdopendir_flags) ELSE up

\* the entries of the directory d that check_and_get_entry accepts
Found(d, info) ==
  {nm \in DOMAIN Entries[d] : check_and_get_entry(d, nm, info)}

\* one turn of the loop, info being dir_info(dir_fd, env) and dir the
\* stream on the parent directory
FpTurn(info, dir) ==
  /\ env' = info.env
  /\ IF ~info.ok
       THEN /\ result' = RErr(info.err)
            /\ pc' = "done"
            /\ acct' = Dropped(Noted(acct, FALSE))
            /\ UNCHANGED <<dir_fd, res>>
     ELSE IF env.counter # MAX_LOOP_CNT
       THEN /\ pc' = "panic"
            /\ UNCHANGED <<dir_fd, res, result, acct>>
     ELSE IF info.is_root
       THEN /\ result' = RPath(assemble(res, fname))
            /\ pc' = "done"
            /\ acct' = Dropped(Noted(acct, TRUE))
            /\ UNCHANGED <<dir_fd, res>>
     ELSE IF ~dir.ok
       THEN /\ result' = RErr(dir.err)
            /\ pc' = "done"
            /\ acct' = Dropped(Noted(acct, FALSE))
            /\ UNCHANGED <<dir_fd, res>>
     ELSE IF Found(dir.node, info) = {}
       THEN /\ dir_fd' = dir.node
            /\ res' = res
            /\ result' = IF res = <<>> THEN RErr("noentry") ELSE result
            /\ pc' = IF res = <<>> THEN "done" ELSE "fp"
            /\ acct' = IF res = <<>> THEN Dropped(Streamed(Took(acct, dir)))
                       ELSE [Streamed(Took(acct, dir)) EXCEPT !.missed = TRUE]
     ELSE \E nm \in Found(dir.node, info) :
            /\ dir_fd' = dir.node
            /\ res' = Append(res, nm)
            /\ result' = result
            /\ pc' = "fp"
            /\ acct' = Streamed(Took(acct, dir))

\* one turn of `loop` in Chroot::full_path
FullPathTurn ==
  /\ pc = "fp"
  /\ FpTurn(dir_info(dir_fd, env),
            ParentDirOf(openat(dir_fd, DotDot, parent_flags)))
  /\ UNCHANGED FpFrame

-----------------------------------------------------------------------------
(* The client takes the result; the call's locals are gone *)

\* the call that ends is the fstatat(dir_fd, fname) the client makes between
\* full_path(dir_fd, Some(fname)) and the fstatat of the path it returned
SourceStat ==
  /\ op = "fstatat"
  /\ heldPath.set
  /\ heldPath.fname.some
  /\ base = heldPath.of
  /\ arg = heldPath.fname.p
  /\ prev = NoPrev

Finish ==
  /\ pc = "done"
  /\ pc' = "idle"
  /\ op' = "none"
  /\ base' = AT_FDCWD
  /\ arg' = <<>>
  /\ path' = <<>>
  /\ flags' = {}
  /\ fname' = None
  /\ stack' = <<>>
  /\ dir_fd' = AT_FDCWD
  /\ env' = NewEnv
  /\ num_loops' = 0
  /\ comp' = Dot
  /\ res' = <<>>
  /\ result' = NoResult
  /\ expansions' = 0
  /\ maxdepth' = 0
  /\ heldPath' = IF result.kind = "path"
                   THEN [set |-> TRUE, str |-> result.str, of |-> base,
                         fname |-> fname]
                   ELSE IF SourceStat THEN heldPath
                   ELSE NoPath
  /\ prev' = IF scn \in {"pair", "pred"} \/ SourceStat
                    \/ (scn = "agree" /\ op = "chdirat")
               THEN [op |-> op, path |-> arg, result |-> result, base |-> base]
               ELSE NoPrev
  /\ acct' = NewAcct
  /\ UNCHANGED <<scn, fdraws, rdir, rc, dirs, rl>>

\* the client keeps its handle and drops the one returned, if any
ReturnDrop ==
  /\ Finish
  /\ held' = held

\* the client keeps the handle returned in place of the one it held
ReturnKeep ==
  /\ Finish
  /\ result.kind = "fd"
  /\ held' = result.node

-----------------------------------------------------------------------------

Walk ==
  \/ StepRootDir
  \/ StepCurDir
  \/ StepParentDir
  \/ StepNormal
  \/ StepSymlinkBail
  \/ StepSymlink
  \/ FrameReturn
  \/ Unwind
  \/ UnwindReturn
  \/ ChdirReturn

Next ==
  \/ chdir
  \/ chdirat
  \/ Chroot_openat
  \/ Chroot_open
  \/ full_path
  \/ Chroot_fstatat
  \/ Chroot_is_at
  \/ Walk
  \/ OpendirReturn
  \/ TerminalOpen
  \/ TerminalRetry
  \/ TerminalBail
  \/ TerminalStat
  \/ FullPathTurn
  \/ ReturnDrop
  \/ ReturnKeep

\* a client that only calls chdir and keeps no handle
NextChdir ==
  \/ chdir
  \/ Walk
  \/ ReturnDrop

\* the fixture client: every call, from the root and from handles returned
Spec == Init /\ [][Next]_vars

\* chdir through long chains and doubling families of links
SpecDeep == InitDeep /\ [][NextChdir]_vars

\* chdir twice in a row, the first call and its result remembered
SpecPair == InitPair /\ [][NextChdir]_vars

\* SpecDeep with the engine running on: a call that has begun takes its steps
FairDeep == SpecDeep /\ WF_vars(Walk)

\* the steps of a call that has begun
Running ==
  \/ Walk
  \/ OpendirReturn
  \/ TerminalOpen
  \/ TerminalRetry
  \/ TerminalBail
  \/ TerminalStat
  \/ FullPathTurn

\* every operation of Chroot over the paths with links that lead back to
\* themselves
SpecTerm == InitOf("term") /\ [][Next]_vars

\* a call is in progress: the states in which a step of Running is enabled
Busy == pc \in {"walk", "unwind", "terminal", "fp"}

\* SpecTerm with the engine running on: a call that has begun takes its
\* steps.  This is weak fairness of Running, WF_vars(Running), with
\* ENABLED <<Running>>_vars written as the state predicate Busy: the thread
\* inside a call is never suspended for ever.
FairTerm == SpecTerm /\ ([]<>~Busy \/ []<><<Running>>_vars)

-----------------------------------------------------------------------------
(* Clients of the later properties *)

EngineVars == <<scn, pc, op, base, arg, path, flags, fname, stack, dir_fd, env,
                num_loops, comp, res, result, held, heldPath, prev, expansions,
                maxdepth, acct>>

\* the Normal arm when the stat of is_lnkat fails for want of memory: the
\* error reads as "no symlink" and open_component goes on
StepNormalStatFails ==
  /\ AtComponent("Normal")
  /\ SettleNormal([ok |-> FALSE, stat |-> NoStat, err |-> "ENOMEM"],
                  open_normal(dir_fd, Head(Top).n))
  /\ UNCHANGED <<env, expansions, maxdepth>>
  /\ UNCHANGED WalkFrame

\* the terminal turn of openat when the stat of is_lnkat fails likewise
TerminalOpenStatFails ==
  /\ pc = "terminal"
  /\ op \in {"open", "openat"}
  /\ TerminalSettle([ok |-> FALSE, stat |-> NoStat, err |-> "ENOMEM"],
                    openat(dir_fd, comp, terminal_flags(flags)))
  /\ pc' = "done"
  /\ UNCHANGED <<dir_fd, env, stack, expansions, maxdepth>>
  /\ UNCHANGED WalkFrame

\* chdir and openat under a kernel whose stat may fail for want of memory
NextFault ==
  \/ chdir
  \/ Chroot_openat
  \/ Walk
  \/ StepNormalStatFails
  \/ OpendirReturn
  \/ TerminalOpen
  \/ TerminalRetry
  \/ TerminalBail
  \/ TerminalOpenStatFails
  \/ ReturnDrop
  \/ ReturnKeep

SpecFault == InitOf("fault") /\ [][NextFault]_vars

\* chdir and openat over the chain of links R/chain/c1, c2, ...
NextChain ==
  \/ chdir
  \/ Chroot_openat
  \/ Walk
  \/ OpendirReturn
  \/ TerminalOpen
  \/ TerminalRetry
  \/ TerminalBail
  \/ ReturnDrop
  \/ ReturnKeep

SpecChain == InitOf("chain") /\ [][NextChain]_vars

\* chdirat, openat, fstatat and the predicates from the handle held
NextAgree ==
  \/ chdirat
  \/ Chroot_openat
  \/ Chroot_fstatat
  \/ Chroot_is_at
  \/ Walk
  \/ OpendirReturn
  \/ TerminalOpen
  \/ TerminalRetry
  \/ TerminalBail
  \/ TerminalStat
  \/ ReturnDrop
  \/ ReturnKeep

SpecAgree == InitOf("agree") /\ [][NextAgree]_vars

\* chdir and full_path in a tree with a filesystem mounted on R/tmp/d0
NextMount ==
  \/ chdir
  \/ full_path
  \/ Walk
  \/ FullPathTurn
  \/ ReturnDrop
  \/ ReturnKeep

SpecMount == InitOf("mount") /\ [][NextMount]_vars

\* the type predicates, each call remembered during the next
NextPred ==
  \/ chdir
  \/ Chroot_is_at
  \/ Walk
  \/ OpendirReturn
  \/ TerminalStat
  \/ ReturnDrop
  \/ ReturnKeep

SpecPred == InitOf("pred") /\ [][NextPred]_vars

Alive == {i \in 1..Len(fdraws) : ~fdraws[i].dropped}

\* FdRaw::new; dupfd and the opens make their values the same way
Fd_new ==
  /\ Len(fdraws) < MaxFdRaw
  /\ \E fd \in RawFds : fdraws' = Append(fdraws, FdRaw_new(fd))
  /\ UNCHANGED <<EngineVars, rdir, rc, dirs, rl>>

\* FdRaw::cwd
Fd_cwd ==
  /\ Len(fdraws) < MaxFdRaw
  /\ fdraws' = Append(fdraws, FdRaw_new(AT_FDCWD))
  /\ UNCHANGED <<EngineVars, rdir, rc, dirs, rl>>

\* FdRaw::as_unmanaged
Fd_as_unmanaged ==
  /\ Len(fdraws) < MaxFdRaw
  /\ \E i \in Alive : fdraws' = Append(fdraws, FdRaw_new_unmanaged(fdraws[i].fd))
  /\ UNCHANGED <<EngineVars, rdir, rc, dirs, rl>>

\* FdRaw::into_file
Fd_into_file ==
  /\ \E i \in Alive : fdraws' = [fdraws EXCEPT ![i] = FdRaw_into_file(@)]
  /\ UNCHANGED <<EngineVars, rdir, rc, dirs, rl>>

\* an FdRaw goes out of scope
Fd_drop ==
  /\ \E i \in Alive : fdraws' = [fdraws EXCEPT ![i] = FdRaw_drop(@)]
  /\ UNCHANGED <<EngineVars, rdir, rc, dirs, rl>>

\* Dir::fdopendir from the handle fdraws[i]; ok: fdopendir(3) returned a stream
FdopendirFrom(i, w, ok) ==
  /\ fdraws' = Append(fdraws, Dir_fd_after(w, ok))
  /\ dirs' = IF ok THEN Append(dirs, Dir_new(w.fd, Len(fdraws) + 1, i))
                   ELSE dirs

Dir_fdopendir ==
  /\ Len(fdraws) < MaxFdRaw
  /\ \E i \in Alive, ok \in BOOLEAN :
       FdopendirFrom(i, FdRaw_new(stream_fd(fdraws[i].fd, Fresh)), ok)
  /\ UNCHANGED <<EngineVars, rdir, rc, rl>>

\* a Dir goes out of scope
Dir_drop ==
  /\ \E k \in 1..Len(dirs) :
       /\ ~dirs[k].dropped
       /\ dirs' = [dirs EXCEPT ![k] = Dir_drop_of(@)]
  /\ UNCHANGED <<EngineVars, fdraws, rdir, rc, rl>>


NextFd ==
  \/ Fd_new
  \/ Fd_cwd
  \/ Fd_as_unmanaged
  \/ Fd_into_file
  \/ Fd_drop
  \/ Dir_fdopendir
  \/ Dir_drop

\* a client of src/fd.rs alone
SpecFd == InitOf("fd") /\ [][NextFd]_vars

InitReadDir ==
  /\ InitEngine("readdir")
  /\ fdraws = <<>>
  /\ rc = NoRc
  /\ dirs = <<>>
  /\ rl = NoReadlink
  /\ rdir \in {ReadDir_new(q) : q \in SeqsUpTo(ReaddirResults, MaxStream)}

\* the client polls the iterator, a few times beyond the end of the stream
Iterator_next ==
  /\ Len(rdir.out) < MaxStream + 2
  /\ rdir' = ReadDir_next(rdir)
  /\ UNCHANGED <<EngineVars, fdraws, rc, dirs, rl>>

\* a client of src/dir.rs alone
SpecReadDir == InitReadDir /\ [][Iterator_next]_vars

InitRc ==
  /\ InitEngine("rc")
  /\ fdraws = <<>>
  /\ rdir = NoReadDir
  /\ dirs = <<>>
  /\ rl = NoReadlink
  /\ rc \in {Fd_from_rawfd(FdRaw_new(fd)) : fd \in RawFds \cup {AT_FDCWD}}

\* Fd::clone
Fd_clone ==
  /\ rc.strong >= 1
  /\ rc.strong < MaxClones
  /\ rc' = [rc EXCEPT !.strong = @ + 1]
  /\ UNCHANGED <<EngineVars, fdraws, rdir, dirs, rl>>

\* a clone goes out of scope
Fd_dropped ==
  /\ rc.strong >= 1
  /\ rc' = Fd_drop_of(rc)
  /\ UNCHANGED <<EngineVars, fdraws, rdir, dirs, rl>>

\* Fd::into_rawfd on one of the clones
Fd_into_rawfd ==
  /\ rc.strong >= 1
  /\ rc' = Fd_into_rawfd_of(rc)
  /\ UNCHANGED <<EngineVars, fdraws, rdir, dirs, rl>>

\* Err(Fd) of into_rawfd is a clone like the others; the FdRaw of Ok goes
\* out of scope
FdRaw_dropped ==
  /\ rc.owned
  /\ ~rc.raw.dropped
  /\ rc' = [rc EXCEPT !.raw = FdRaw_drop(@)]
  /\ UNCHANGED <<EngineVars, fdraws, rdir, dirs, rl>>

NextRc ==
  \/ Fd_clone
  \/ Fd_dropped
  \/ Fd_into_rawfd
  \/ FdRaw_dropped

\* a client of Fd alone
SpecRc == InitRc /\ [][NextRc]_vars

InitReadlink ==
  /\ InitEngine("readlink")
  /\ fdraws = <<>>
  /\ rdir = NoReadDir
  /\ rc = NoRc
  /\ dirs = <<>>
  /\ rl \in {Readlink_new(n) : n \in 0..MaxTarget}

\* one turn of the loop of FdRaw::readlinkat
FdRaw_readlinkat ==
  /\ ~rl.done
  /\ \E newcap \in Reserved(rl.cap) :
       rl' = Readlink_turn(rl, KReadlinkLen(rl.n, rl.cap), newcap)
  /\ UNCHANGED <<EngineVars, fdraws, rdir, rc, dirs>>

\* a call of FdRaw::readlinkat, running on until it returns
SpecReadlink ==
  InitReadlink /\ [][FdRaw_readlinkat]_vars /\ WF_vars(FdRaw_readlinkat)

-----------------------------------------------------------------------------
(* Properties of the engine *)

Walking == pc \in {"walk", "unwind", "terminal"}

Returned(o) == pc = "done" /\ op \in o

\* chdir has not yet taken the RootDir component of its argument
BeforeRootDir ==
  dir_fd = AT_FDCWD /\ op = "chdir" /\ pc = "walk" /\ stack = <<Components(arg)>>

\* C1 (confinement): during chdir(P) and open(P, flags) the current directory
\* handle of the walk is inside R's subtree from the RootDir component of P
\* on, and the handle returned refers to an object of R's subtree.
Confinement ==
  /\ (op \in {"chdir", "open"} /\ Walking) => (BeforeRootDir \/ InsideR(dir_fd))
  /\ (Returned({"chdir", "open"}) /\ result.kind = "fd") => InsideR(result.node)

\* chdir("/tmp/ld4"), ld4 -> ../.././../../tmp/d0, has returned R/tmp/d0
EscapingLinkConfined ==
  /\ Returned({"chdir"})
  /\ arg = <<Sep, "tmp", Sep, "ld4">>
  /\ result.kind = "fd"
  /\ InsideR(result.node)
  /\ RealPath(result.node) = <<Sep, "tmp", Sep, "d0">>

AtRootDir == pc = "walk" /\ stack # <<>> /\ Top # <<>> /\ Head(Top).k = "RootDir"

\* C2 (absolute reinterpretation): a RootDir component, of the argument or of
\* a link target, replaces the current directory by a handle on R; opening
\* lD1 -> /etc/group fails and opening lf3 -> /etc/passwd gives R/etc/passwd.
AbsoluteReinterpretation ==
  /\ [][AtRootDir => (pc' = "walk" /\ dir_fd' = RootNode)]_vars
  /\ [](Returned({"open"}) /\ arg = <<Sep, "tmp", Sep, "lD1">>
          => result.kind = "err")
  /\ [](Returned({"open"}) /\ arg = <<Sep, "tmp", Sep, "lf3">>
          /\ "O_DIRECTORY" \notin flags
          => result = RFd(FixNode(FixNode(RootNode, "etc"), "passwd")))

\* open("/tmp/lf3") has returned the passwd of R/etc
AbsoluteTargetOpened ==
  /\ Returned({"open"})
  /\ arg = <<Sep, "tmp", Sep, "lf3">>
  /\ result.kind = "fd"
  /\ InsideR(result.node)
  /\ RealPath(result.node) = <<Sep, "etc", Sep, "passwd">>

RECURSIVE Elide(_)
\* an absolute path without the ".." components that follow its root
Elide(p) ==
  IF p = <<Sep, DotDot>> THEN <<Sep>>
  ELSE IF Len(p) >= 3 /\ p[1] = Sep /\ p[2] = DotDot /\ p[3] = Sep
    THEN Elide(<<Sep>> \o SubSeq(p, 4, Len(p)))
    ELSE p

AtParentDirOfRoot ==
  /\ pc = "walk" /\ stack # <<>> /\ Top # <<>>
  /\ Head(Top).k = "ParentDir"
  /\ dir_fd = RootNode

\* C3 (root fixed point): ".." taken at R leaves the current directory at R;
\* chdir of a path with ".." components after its root returns what chdir of
\* the path without them returned; chdir("/") returns a handle whose stat is
\* the root stat.
RootFixedPoint ==
  /\ [][AtParentDirOfRoot => (pc' = "walk" /\ dir_fd' = RootNode)]_vars
  /\ [](Returned({"chdir"}) /\ prev.op = "chdir" /\ Elide(arg) = Elide(prev.path)
          => result = prev.result)
  /\ [](Returned({"chdir"}) /\ arg = <<Sep>>
          => result.kind = "fd" /\ Stat(result.node) = root_stat.stat)

\* chdir("/etc") and then chdir("/../../etc") have returned the same directory
ElidedPairAgrees ==
  /\ Returned({"chdir"})
  /\ prev.op = "chdir"
  /\ prev.path = <<Sep, "etc">>
  /\ arg = <<Sep, DotDot, Sep, DotDot, Sep, "etc">>
  /\ result.kind = "fd"
  /\ result = prev.result

\* C4 (no escape via parent): the handle the client holds is inside R, and
\* from such a base chdirat and openat keep the current directory of the walk
\* inside R and return only handles on objects of R's subtree.
NoEscapeViaParent ==
  /\ InsideR(held)
  /\ (op \in {"chdirat", "openat"} /\ Walking) => InsideR(dir_fd)
  /\ (Returned({"chdirat", "openat"}) /\ result.kind = "fd")
       => InsideR(result.node)

\* openat(R/tmp, "../../../etc/passwd") has returned the passwd of R/etc
ParentsFromInside ==
  /\ Returned({"openat"})
  /\ base # RootNode
  /\ InsideR(base)
  /\ RealPath(base) = <<Sep, "tmp">>
  /\ arg = <<DotDot, Sep, DotDot, Sep, DotDot, Sep, "etc", Sep, "passwd">>
  /\ result.kind = "fd"
  /\ InsideR(result.node)
  /\ RealPath(result.node) = <<Sep, "etc", Sep, "passwd">>

\* the fixture's links whose target is a relative path without ".."
PlainLinks ==
  {n \in FixInside : /\ FS[n].type = "lnk"
                     /\ ~has_root(FS[n].target)
                     /\ \A i \in 1..Len(FS[n].target) : FS[n].target[i] # DotDot}

\* what the target of the link n denotes from the directory that contains n
Denoted(n) == KWalk(FS[n].parent, FS[n].target, KernelMaxLinks)

\* C5 (terminal symlink resolution): open / openat of the full path of a link
\* with a relative target returns the object the target denotes from the
\* directory that contains the link.
TerminalSymlinkResolution ==
  \A n \in PlainLinks :
    (/\ Returned({"open", "openat"})
     /\ arg = RealPath(n)
     /\ "O_DIRECTORY" \notin flags
     /\ Denoted(n).ok)
    => result = RFd(Denoted(n).node)

\* C6 (self-referential terminal link): open("/tmp/lD2", O_RDONLY), with
\* tmp/lD2 -> lD2, fails with the too-many-loops error.
SelfLinkExhaustsBudget ==
  (Returned({"open"}) /\ arg = <<Sep, "tmp", Sep, "lD2">>)
  => result = RErr("loop")

\* the chain link named by the last component of /chain/c<n>
ChainArg == Len(arg) = 4 /\ arg[2] = "chain" /\ arg[4] \in DOMAIN Entries[ChainDir]
                         /\ Entries[ChainDir][arg[4]] \in ChainIds

ChainNum == Entries[ChainDir][arg[4]] - ChainBase

AtSymlink ==
  /\ pc = "walk" /\ stack # <<>> /\ Top # <<>>
  /\ Head(Top).k = "Normal"
  /\ is_lnkat(dir_fd, Head(Top).n)

\* C7 (nested symlink budget): chdir through n nested links returns the
\* directory at the chain's end for n <= MAX_LOOP_CNT and the too-many-loops
\* error for n > MAX_LOOP_CNT; a cycle of links gives that error; the error
\* is raised when, and only when, a symlink is met with the counter at 0;
\* every walk comes to its return.
NestedBudget ==
  /\ (pc = "walk") ~> (pc = "done")
  /\ [](Returned({"chdir"}) /\ ChainArg
          => result = IF ChainNum <= MAX_LOOP_CNT THEN RFd(ChainEnd)
                                                 ELSE RErr("loop"))
  /\ [](Returned({"chdir"}) /\ arg = <<Sep, "chain", Sep, "la">>
          => result = RErr("loop"))
  /\ [][(AtSymlink /\ env.counter = 0) => result' = RErr("loop")]_vars
  /\ [][(result # RErr("loop") /\ result' = RErr("loop"))
          => (AtSymlink /\ env.counter = 0)]_vars

\* chdir through MAX_LOOP_CNT nested links has returned the chain's end
FullBudgetSpent ==
  /\ Returned({"chdir"})
  /\ arg = <<Sep, "chain", Sep, ChainName(MAX_LOOP_CNT)>>
  /\ result = RFd(ChainEnd)
  /\ maxdepth = MAX_LOOP_CNT

\* C8 (bounded work) as stated: a walk performs at most MAX_LOOP_CNT symlink
\* expansions in total.
TotalExpansionsBounded == expansions <= MAX_LOOP_CNT

\* C8 as the counter bounds it: the expansions in progress at one time (the
\* nesting of chdir_internal) are at most MAX_LOOP_CNT, the counter being
\* MAX_LOOP_CNT less that nesting.
NestingBounded ==
  /\ maxdepth <= MAX_LOOP_CNT
  /\ (pc \in {"walk", "unwind"}) =>
       /\ Len(stack) - 1 <= MAX_LOOP_CNT
       /\ env.counter = MAX_LOOP_CNT - (Len(stack) - 1)

\* a chdir that has expanded more than MAX_LOOP_CNT links and succeeded
ManyExpansionsSucceed ==
  /\ Returned({"chdir"})
  /\ expansions > MAX_LOOP_CNT
  /\ maxdepth <= MAX_LOOP_CNT
  /\ result.kind = "fd"

\* C9 (full_path round trip): full_path(H, None) of a directory handle H
\* succeeds, and chdir of the string it returned returns H's directory.
FullPathRoundTrip ==
  /\ (Returned({"full_path"}) /\ FS[base].type = "dir") => result.kind = "path"
  /\ (Returned({"chdir"}) /\ heldPath.set /\ ~heldPath.fname.some
        /\ arg = heldPath.str)
       => result = RFd(heldPath.of)

\* chdir(full_path(H, None)) has returned H = R/tmp/d0/d1
RoundTripDone ==
  /\ Returned({"chdir"})
  /\ heldPath.set
  /\ ~heldPath.fname.some
  /\ arg = heldPath.str
  /\ RealPath(heldPath.of) = <<Sep, "tmp", Sep, "d0", Sep, "d1">>
  /\ result = RFd(heldPath.of)

\* "/n1/.../nk" followed by "/f" when f is given; "/" for k = 0 and no f
Formatted(n, f) ==
  IF ~f.some THEN RealPath(n)
  ELSE IF n = RootNode THEN <<Sep>> \o f.p
  ELSE RealPath(n) \o <<Sep>> \o f.p

\* C10 (full_path format): full_path of a directory handle at n1/.../nk below
\* R is "/n1/.../nk", "/" when k = 0, with "/f" appended for Some(f); it is
\* never the empty string.
FullPathFormat ==
  (Returned({"full_path"}) /\ FS[base].type = "dir")
  => /\ result = RPath(Formatted(base, fname))
     /\ result.str # <<>>

\* full_path(chdir("/tmp/d0/d1"), Some("f0")) has returned "/tmp/d0/d1/f0"
FormatOfExample ==
  /\ Returned({"full_path"})
  /\ RealPath(base) = <<Sep, "tmp", Sep, "d0", Sep, "d1">>
  /\ fname = Some(<<"f0">>)
  /\ result = RPath(<<Sep, "tmp", Sep, "d0", Sep, "d1", Sep, "f0">>)

-----------------------------------------------------------------------------
(* Properties of full_path, fstatat and the type predicates *)

\* C11 (full_path failure): a call of full_path that met, at any level of its
\* upward walk, a parent directory without a child matching the current
\* directory returns the "no entry found" error.
NoEntryAtAnyLevel ==
  (Returned({"full_path"}) /\ acct.missed) => result = RErr("noentry")

\* the entry of D's listing named by the fname that full_path(D, fname) took
NamedEntry == Entries[heldPath.of][heldPath.fname.p[1]]

\* fstatat(root_fd, full_path(D, Some(n))) returns, after fstatat(D, n)
\* returned the stat of an object
FullStat ==
  /\ Returned({"fstatat"})
  /\ base = RootNode
  /\ heldPath.set
  /\ arg = heldPath.str
  /\ prev.op = "fstatat"
  /\ prev.result.kind = "stat"

\* C12 (fstatat agreement): fstatat(root_fd, full_path(D, Some(n))) and
\* fstatat(D, n) return the same stat (device, inode, mode), the stat of the
\* entry n of D itself, not of what a symlink n points to.
FstatatAgreement ==
  FullStat => /\ result = prev.result
              /\ result.stat = Stat(NamedEntry)

\* both calls have returned the stat of the symlink lf2 of R/tmp
LinkStatAgrees ==
  /\ FullStat
  /\ heldPath.str = <<Sep, "tmp", Sep, "lf2">>
  /\ result = prev.result
  /\ result.stat.st_mode = "lnk"

\* a predicate has returned for a path that spells out where an object of
\* R's subtree is, the object being n
Spelled(n) == Returned(IsOps) /\ arg = RealPath(n)

\* C13 (predicates): is_dirat, is_regat and is_lnkat tell the type of the final
\* component itself, a symlink being a symlink whatever it points to; of two
\* predicates asked in a row about the same path from the same handle at most
\* one is true.
PredicateClassification ==
  /\ \A n \in FixInside :
       Spelled(n) => result.b = (FS[n].type = FileType(op))
  /\ (Returned(IsOps) /\ result.b /\ prev.op \in IsOps /\ prev.base = base
        /\ prev.path = arg /\ prev.result.b) => prev.op = op

\* is_dirat then is_lnkat on the self-referential link lD2: false, then true
SelfLinkIsLink ==
  /\ Returned({"is_lnkat"})
  /\ arg = <<Sep, "tmp", Sep, "lD2">>
  /\ result.b
  /\ prev.op = "is_dirat"
  /\ prev.path = arg
  /\ prev.base = base
  /\ ~prev.result.b

\* C14 (predicates never fail): a type predicate returns a bool; when the
\* resolution of the parent or the stat of the final component failed, the
\* bool is false.
PredicatesNeverFail ==
  Returned(IsOps) => /\ result.kind = "bool"
                     /\ result.err # "" => ~result.b

\* a predicate has returned false for a path whose parent ran out of budget
BudgetErrorIsFalse ==
  /\ Returned(IsOps)
  /\ arg = <<Sep, "chain", Sep, "la", Sep, "x">>
  /\ result = RBool(FALSE, "loop")

\* C15 (chdir validation): chdir of a path that is not absolute returns the
\* validation error at once: it issues no syscall, opens no descriptor and
\* never walks.
ChdirValidation ==
  (op = "chdir" /\ ~has_root(arg))
  => /\ pc = "done"
     /\ result = RErr("validation")
     /\ ~acct.sys
     /\ acct.nfd = 0

\* chdir("etc") has returned the validation error
RelativeRejected ==
  /\ Returned({"chdir"})
  /\ arg = <<"etc">>
  /\ result = RErr("validation")
  /\ ~acct.sys

\* C16 (failure policy): a call of chdir, chdirat, open, openat or fstatat one
\* of whose syscalls failed returns an error, never a handle.
NoHandleAfterFailure ==
  (Returned({"chdir", "chdirat", "open", "openat", "fstatat"}) /\ acct.failed)
  => result.kind = "err"

\* C17 (handle release): the drop of an FdRaw that owns its descriptor closes
\* it once; an FdRaw not dropped, made unmanaged, emptied into a File, or
\* holding AT_FDCWD has closed nothing.
ReleaseOnDrop ==
  \A i \in 1..Len(fdraws) :
    /\ (fdraws[i].dropped /\ fdraws[i].by = "new" /\ fdraws[i].fd # AT_FDCWD)
         => fdraws[i].closes = 1
    /\ (~fdraws[i].dropped \/ fdraws[i].by # "new" \/ fdraws[i].fd = AT_FDCWD)
         => fdraws[i].closes = 0

\* FdRaw::new(3) and FdRaw::cwd() were both dropped: one close, of 3
OwnedClosedCwdNot ==
  /\ Len(fdraws) >= 2
  /\ fdraws[1] = [fd |-> 3, is_managed |-> TRUE, by |-> "new",
                  dropped |-> TRUE, closes |-> 1]
  /\ fdraws[2].fd = AT_FDCWD
  /\ fdraws[2].dropped
  /\ fdraws[2].closes = 0

\* C18 (no descriptor leak): when a call returns, no descriptor was closed
\* twice or closed without being open, and of the descriptors the call opened
\* the only one open is the one behind the handle it returns; none is after
\* an error or a scalar result.
NoDescriptorLeak ==
  pc = "done" =>
    /\ ~acct.bad
    /\ acct.tmp = 0
    /\ acct.live = IF result.kind = "fd" THEN {acct.cur} \ {0} ELSE {}

\* a walk that opened directories ran out of budget: all of them are closed
ClosedAfterBudgetError ==
  /\ pc = "done"
  /\ result = RErr("loop")
  /\ acct.nfd > 1
  /\ acct.live = {}
  /\ ~acct.bad

\* C19 (error stickiness): once next has yielded an error, every later poll
\* yields None.
StickyError ==
  \A i \in 1..Len(rdir.out) :
    rdir.out[i] = "Err" => \A j \in (i + 1)..Len(rdir.out) : rdir.out[j] = "None"

NotDotEntry(name) == name \notin {".", ".."}

\* what readdir has returned and will return, without the dot entries
Listing == SelectSeq(rdir.taken \o rdir.todo, NotDotEntry)

\* C20 (filtering): if readdir never fails, the polls yield the entries not
\* named "." or ".." in readdir's order, each once, and None from then on.
ReadDirFiltering ==
  (\A i \in 1..Len(Listing) : Listing[i] # "EIO")
  => \A k \in 1..Len(rdir.out) :
       rdir.out[k] = IF k <= Len(Listing) THEN Listing[k] ELSE "None"

\* ".", "a", "..", "b" were read and a, b and None yielded
DotsSkipped ==
  /\ rdir.taken = <<".", "a", "..", "b">>
  /\ rdir.out = <<"a", "b", "None">>

-----------------------------------------------------------------------------
(* Properties of descriptors, streams and buffers *)

\* C21 (shared handle lifetime): while a clone of an Fd is alive its
\* descriptor is open; the descriptor is closed once, when the last clone is
\* dropped (or the FdRaw that into_rawfd gave out is); into_rawfd gives the
\* FdRaw out only to the sole reference and otherwise closes nothing.
SharedLifetime ==
  /\ [](/\ rc.strong >= 1 => (~rc.raw.dropped /\ rc.raw.closes = 0)
        /\ rc.raw.dropped
             => rc.raw.closes = IF rc.raw.fd = AT_FDCWD THEN 0 ELSE 1
        /\ (rc.strong = 0 /\ ~rc.owned) => rc.raw.dropped
        /\ rc.got = "Ok" => rc.was = 1
        /\ rc.got = "Err" => rc.was > 1)
  /\ [][rc'.raw.closes # rc.raw.closes
          => (rc.strong = 1 /\ rc'.strong = 0) \/ rc.owned]_vars

\* three clones were alive, into_rawfd was refused, and the last drop closed
\* the descriptor
LastCloneCloses ==
  /\ rc.got = "Err"
  /\ rc.was = 3
  /\ rc.strong = 0
  /\ rc.raw.dropped
  /\ rc.raw.closes = 1

\* the FdRaw values Dir::fdopendir made
StreamRaws == {i \in 1..Len(fdraws) : fdraws[i].fd \notin RawFds \cup {AT_FDCWD}}

\* C25 (ownership transfer): the FdRaw emptied by into_file and the FdRaw
\* handed to a stream close nothing; the stream's descriptor is closed by
\* closedir alone, once, when the Dir is dropped; the FdRaw of a failed
\* fdopendir closes its descriptor itself; no descriptor is closed twice.
OwnershipTransfer ==
  /\ \A i \in 1..Len(fdraws) :
       fdraws[i].by \in {"file", "dir"} => fdraws[i].closes = 0
  /\ \A i \in StreamRaws :
       fdraws[i].by # "dir" => (fdraws[i].dropped /\ fdraws[i].closes = 1)
  /\ \A k \in 1..Len(dirs) :
       /\ fdraws[dirs[k].of].by = "dir"
       /\ dirs[k].closes = IF dirs[k].dropped THEN 1 ELSE 0
       /\ fdraws[dirs[k].of].closes + dirs[k].closes <= 1

\* one fdopendir failed and closed its descriptor, another gave a Dir that
\* was dropped and closed its own
BothTransfers ==
  /\ Len(dirs) = 1
  /\ dirs[1].dropped
  /\ dirs[1].closes = 1
  /\ fdraws[dirs[1].of].closes = 0
  /\ \E i \in StreamRaws : fdraws[i].by # "dir" /\ fdraws[i].closes = 1

\* C26 (fresh stream descriptor): Dir::fdopendir(H) leaves H and every other
\* FdRaw as it was, and the stream's descriptor is none of theirs.
FreshStream ==
  [][Len(dirs') > Len(dirs)
       => /\ \A i \in 1..Len(fdraws) : fdraws'[i] = fdraws[i]
          /\ dirs'[Len(dirs')].fd \notin {fdraws[i].fd : i \in 1..Len(fdraws)}
    ]_vars

\* a Dir was made from FdRaw::new(3) and dropped; the handle, still managed
\* and open then, closed its descriptor 3 at its own drop
HandleOutlivesStream ==
  /\ Len(dirs) = 1
  /\ dirs[1].from = 1
  /\ dirs[1].fd # 3
  /\ dirs[1].closes = 1
  /\ fdraws[1] = [fd |-> 3, is_managed |-> TRUE, by |-> "new",
                  dropped |-> TRUE, closes |-> 1]

\* C27 (readlinkat): the call ends, with the whole target in a buffer it does
\* not fill; a turn whose result fills the buffer is followed by one with a
\* larger buffer.
ReadlinkComplete ==
  /\ [](/\ rl.len <= rl.cap
        /\ rl.done => (rl.len = rl.n /\ rl.len < rl.cap))
  /\ [][(rl'.turns # rl.turns /\ rl.n >= rl.cap)
          => (~rl'.done /\ rl'.cap > rl.cap)]_vars
  /\ <>rl.done

\* a target of 512 bytes: it fills the buffers of 256 and of 512 bytes and is
\* returned from the third turn
TwoCapacitiesFilled ==
  /\ rl.n = 2 * BufStep
  /\ rl.done
  /\ rl.turns = 3
  /\ rl.len = rl.n

-----------------------------------------------------------------------------
(* Properties of the walk's budget, flags and termination *)

\* C22 (budget restoration): env.counter lies in 0..MAX_LOOP_CNT; in an
\* activation of chdir_internal nested k deep it is MAX_LOOP_CNT - k, so each
\* return, Ok or Err, leaves it as it was at entry; after the outermost
\* return it is MAX_LOOP_CNT, no assert_eq! fails and each turn of the loop
\* of openat starts with the full budget.
BudgetRestored ==
  /\ env.counter \in 0..MAX_LOOP_CNT
  /\ pc \in {"walk", "unwind"}
       => env.counter = MAX_LOOP_CNT - (Len(stack) - 1)
  /\ pc \in {"terminal", "done", "fp", "idle"} => env.counter = MAX_LOOP_CNT
  /\ pc # "panic"

\* openat is in a later turn of its loop, after a parent resolution that
\* expanded links, with the full budget
RetryWithFullBudget ==
  /\ pc = "terminal"
  /\ op \in {"open", "openat"}
  /\ num_loops < MAX_LOOP_CNT
  /\ maxdepth >= 2
  /\ env.counter = MAX_LOOP_CNT

\* the flags of every open a call has issued for a component of kind by
FlagsOf(by) == {o.flags : o \in {p \in acct.opens : p.by = by}}

\* C23 as stated (open flags): every open for a component, the root marker
\* included, carries O_DIRECTORY and O_NOFOLLOW, and the terminal open the
\* caller's flags and O_NOFOLLOW.
AllOpensNoFollow ==
  /\ \A f \in FlagsOf("RootDir") \cup FlagsOf("ParentDir") \cup FlagsOf("Normal") :
       {"O_DIRECTORY", "O_NOFOLLOW"} \subseteq f
  /\ \A f \in FlagsOf("terminal") : f = flags \cup {"O_NOFOLLOW"}

\* C23 (open flags, amended): the opens for a parent or a normal component
\* carry O_DIRECTORY and O_NOFOLLOW, the terminal open the caller's flags and
\* O_NOFOLLOW; the open for the root marker carries O_DIRECTORY and not
\* O_NOFOLLOW.
ComponentOpensNoFollow ==
  /\ \A f \in FlagsOf("ParentDir") \cup FlagsOf("Normal") :
       {"O_DIRECTORY", "O_NOFOLLOW"} \subseteq f
  /\ \A f \in FlagsOf("terminal") : f = flags \cup {"O_NOFOLLOW"}
  /\ \A f \in FlagsOf("RootDir") : "O_DIRECTORY" \in f /\ "O_NOFOLLOW" \notin f

\* an open call has issued opens of all four kinds
AllKindsOpened ==
  /\ Returned({"open", "openat"})
  /\ \A by \in {"RootDir", "ParentDir", "Normal", "terminal"} : FlagsOf(by) # {}

\* the name is that of a symlink of the directory behind fd
IsLink(fd, name) == TypeOf(KLookup(FdNode(fd), name)) = "lnk"

\* C29 (spurious probe): when the stat of a probe fails, as when it does
\* not, no walk steps over a component that is a symlink but by expanding its
\* target, no open of a final symlink returns a handle, and the walk stays
\* inside R.
NoPassThroughSymlink ==
  /\ [][(AtComponent("Normal") /\ IsLink(dir_fd, Head(Top).n))
          => (pc' = "unwind" \/ Len(stack') = Len(stack) + 1)]_vars
  /\ [][(pc = "terminal" /\ IsLink(dir_fd, comp) /\ pc' = "done")
          => result'.kind = "err"]_vars
  /\ []((pc \in {"walk", "unwind", "terminal"})
          => (BeforeRootDir \/ InsideR(dir_fd)))

\* the probe of the symlink ld4 failed and the open of ld4 was refused
ProbeFailedOpenRefused ==
  /\ pc = "unwind"
  /\ Top # <<>>
  /\ Head(Top) = NormalC("ld4")
  /\ IsLink(dir_fd, "ld4")
  /\ acct.failed
  /\ result = RErr("ENOTDIR")

\* openat(B, "c<n>", flags) has returned, B being a handle of R/chain
ChainOpened ==
  /\ Returned({"openat"})
  /\ base = ChainDir
  /\ Len(arg) = 1
  /\ arg[1] \in {ChainName(i) : i \in 1..ChainLen}

\* the number n of the link c<n> the call was given: c<n> -> ... -> c1 -> c0
TerminalLinks == Entries[ChainDir][arg[1]] - ChainBase

\* C24 (terminal retry bound): openat of a final component that heads a
\* chain of n symlinks ending at the directory c0 returns a handle of c0 for
\* every n <= MAX_LOOP_CNT and the too-many-loops error for every larger n.
TerminalRetryBound ==
  ChainOpened =>
    result = IF TerminalLinks <= MAX_LOOP_CNT THEN RFd(ChainEnd)
                                              ELSE RErr("loop")

\* the call on a chain of exactly MAX_LOOP_CNT links has failed
FullChainFails ==
  /\ ChainOpened
  /\ TerminalLinks = MAX_LOOP_CNT
  /\ result = RErr("loop")

\* what the loop of openat does: it opens for every n < MAX_LOOP_CNT
TerminalRetryBoundOfCode ==
  ChainOpened =>
    result = IF TerminalLinks < MAX_LOOP_CNT THEN RFd(ChainEnd)
                                             ELSE RErr("loop")

\* C28 (termination): every call of chdir, chdirat, open, openat, fstatat
\* and the type predicates that has begun returns, whatever the path and
\* the links it meets, cycles of links included; full_path returns for every
\* directory handle inside R, once it has ascended as many levels as the
\* directory is deep below R.
Termination ==
  /\ (pc \notin {"idle", "done"}) ~> (pc = "done")
  /\ [](Returned({"full_path"}) /\ FS[base].type = "dir" /\ InsideR(base)
          => (dir_fd = RootNode /\ Len(res) = Depth(base)))

\* openat of the link lD2 -> lD2 has returned after using every turn of its
\* loop
CycleReturned ==
  /\ Returned({"openat"})
  /\ arg = <<"lD2">>
  /\ base = FixNode(RootNode, "tmp")
  /\ num_loops = 0
  /\ result = RErr("loop")

-----------------------------------------------------------------------------
(* Properties of openat against chdirat *)

RECURSIVE LinkFree(_, _)
\* no component c of a path names a symlink or a missing entry, from d on
LinkFree(d, c) ==
  IF c = <<>> THEN TRUE
  ELSE IF Head(c).k = "RootDir" THEN LinkFree(RootNode, Tail(c))
  ELSE IF Head(c).k = "CurDir" THEN LinkFree(d, Tail(c))
  ELSE IF Head(c).k = "ParentDir"
    THEN LinkFree(IF d = RootNode THEN d ELSE FS[d].parent, Tail(c))
  ELSE /\ TypeOf(KLookup(d, Head(c).n)) \in {"dir", "reg"}
       /\ LinkFree(KLookup(d, Head(c).n).node, Tail(c))

\* a call has returned whose base and path are those of the chdirat before
\* it, which returned a handle, the path being free of symlinks
AfterChdirat ==
  /\ pc = "done"
  /\ prev.op = "chdirat"
  /\ prev.base = base
  /\ prev.path = arg
  /\ prev.result.kind = "fd"
  /\ LinkFree(base, Components(arg))

\* the call is openat with O_DIRECTORY, fstatat or is_dirat, and its result
\* is the directory d: a handle of d, the stat of d, true
Describes(d) ==
  /\ (op = "openat" /\ "O_DIRECTORY" \in flags)
       => (result.kind = "fd" /\ Stat(result.node) = Stat(d))
  /\ op = "fstatat" => result = RStat(Stat(d))
  /\ op = "is_dirat" => (result.kind = "bool" /\ result.b)

\* C30 (open and chdir agree): for a base handle B and a symlink-free path P
\* of a directory, a last component `..` or `.` included,
\* openat(B, P, O_RDONLY|O_DIRECTORY) returns the directory chdirat(B, P)
\* returns, and fstatat(B, P) and is_dirat(B, P) describe that directory.
OpenChdirAgreement == AfterChdirat => Describes(prev.result.node)

\* openat(B, "tmp/..") has returned R/tmp after chdirat(B, "tmp/..")
\* returned R
DotDotOpensParent ==
  /\ AfterChdirat
  /\ op = "openat"
  /\ arg = <<"tmp", Sep, DotDot>>
  /\ prev.result = RFd(RootNode)
  /\ result = RFd(FixNode(RootNode, "tmp"))

\* what opendir_internal does: the calls agree when the path does not end
\* in `..`
OpenChdirAgreementOfCode ==
  (AfterChdirat /\ (PathParent(arg).some => PathFileName(arg).some))
    => Describes(prev.result.node)

=============================================================================
